---- MODULE Spec2Model ----
(***************************************************************************)
(* A model of lopdf's cross-reference stream decoder, object stream        *)
(* decoder, text extraction and text substitution                          *)
(* (src/src/parser_aux.rs, src/src/object_stream.rs).                      *)
(*                                                                         *)
(* Each component is a state machine of its own, with its own variables    *)
(* and its own specification; the variables of the other components stay   *)
(* at their idle values.                                                   *)
(***************************************************************************)
EXTENDS Integers, Sequences, FiniteSets, TLC

\* An optional value (Rust's Result / Option): Some(v), or None for a
\* dictionary key that is absent or whose value has the wrong type.
None == <<>>
Some(v) == <<v>>
IsSome(o) == o # <<>>
Get(o) == o[1]

(***************************************************************************)
(* State.                                                                  *)
(***************************************************************************)
\* decode_xref_stream
VARIABLES
    xDict,      \* the stream dictionary: Size, Index, W
    xPc,        \* "idle", "start", "rows", "done"
    xPair,      \* i of the loop over the (start, count) pairs
    xRow,       \* j of the loop over the rows of pair i
    xContent,   \* the bytes of stream.content the reader has consumed
    xXref,      \* xref.entries: object number -> entry
    xRet        \* the value returned: "none", "Ok", "InvalidXref", "IO"

\* ObjectStream::new
VARIABLES
    oStream,    \* the stream: raw, plain, and First and N of its dictionary
    oRayon,     \* whether the build has the "rayon" feature
    oPc,        \* "idle", "start", "chunks", "done"
    oContent,   \* stream.content after `let _ = stream.decompress()`
    oNumbers,   \* numbers: Vec<Option<u32>>
    oPending,   \* the chunks (pairs) not yet mapped, by position from 1
    oObjects,   \* the objects collected: ObjectId -> Object
    oRet        \* "none", "Ok", or the error returned

\* extract_text_chunks_from_page, one page
VARIABLES
    tFonts,     \* the fonts of the page: name -> encoding, or None
    tProg,      \* the operations of the page program the loop has taken
    tState,     \* current_encoding, current_text, collected_chunks_and_errs
    tPc         \* "idle", "start", "ops", "done"

\* extract_text and extract_text_chunks
VARIABLES
    dDoc,       \* the pages of the document, page 1 first
    dRequest,   \* page_numbers
    dIdx,       \* how many of page_numbers are done
    dChunks,    \* what extract_text_chunks has collected
    dText,      \* what extract_text returns
    dPc         \* "idle", "chunks", "done"

\* replace_partial_text
VARIABLES
    rDoc,           \* the pages of the document as the call finds them
    rStored,        \* the pages of the document, as stored now
    rWrites,        \* how often change_page_content was called
    rPageNumber,    \* page_number
    rSearch,        \* search_text
    rReplacement,   \* replacement_text
    rDefault,       \* default_char: None or Some(text)
    rPage,          \* the page page_id addresses, 0 before it is found
    rOps,           \* content.operations
    rIdx,           \* how many operations the loop has done
    rEnc,           \* current_encoding
    rCount,         \* replacement_count
    rPc,            \* "idle", "start", "ops", "done"
    rRet            \* None, or what the call returned

\* replace_text
VARIABLES
    eDoc,           \* the pages of the document as the call finds them
    eStored,        \* the pages of the document, as stored now
    eWrites,        \* how often change_page_content was called
    ePageNumber,    \* page_number
    eText,          \* text
    eOtherText,     \* other_text
    eDefault,       \* default_str: None or Some(text)
    ePage,          \* the page page_id addresses, 0 before it is found
    eOps,           \* content.operations
    eIdx,           \* how many operations the loop has done
    eEnc,           \* current_encoding
    ePc,            \* "idle", "start", "ops", "done"
    eRet            \* None, or what the call returned

\* collect_text
VARIABLES
    cEncoding,      \* encoding
    cOperands,      \* operands
    cResult,        \* None, or Some of the text and whether Ok was returned
    cPc             \* "idle", "call", "done"

\* insert_form_object
VARIABLES
    fDoc,           \* the document as the call finds it
    fStored,        \* the document as stored now
    fFormId,        \* form_id: None, or Some of the id add_object gave
    fOps,           \* content.operations
    fPc,            \* "idle", "start", "content", "xobject", "store", "done"
    fRet            \* "none", "Ok", "Err"

xvars == <<xDict, xPc, xPair, xRow, xContent, xXref, xRet>>
ovars == <<oStream, oRayon, oPc, oContent, oNumbers, oPending, oObjects, oRet>>

tvars == <<tFonts, tProg, tState, tPc>>
dvars == <<dDoc, dRequest, dIdx, dChunks, dText, dPc>>

rvars == <<rDoc, rStored, rWrites, rPageNumber, rSearch, rReplacement, rDefault,
           rPage, rOps, rIdx, rEnc, rCount, rPc, rRet>>

evars == <<eDoc, eStored, eWrites, ePageNumber, eText, eOtherText, eDefault,
           ePage, eOps, eIdx, eEnc, ePc, eRet>>

cvars == <<cEncoding, cOperands, cResult, cPc>>

fvars == <<fDoc, fStored, fFormId, fOps, fPc, fRet>>

vars == <<xvars, ovars, tvars, dvars, rvars, evars, cvars, fvars>>

\* What the steps of one component leave alone: the other components.
xOthers == <<ovars, tvars, dvars, rvars, evars, cvars, fvars>>
oOthers == <<xvars, tvars, dvars, rvars, evars, cvars, fvars>>
tOthers == <<xvars, ovars, dvars, rvars, evars, cvars, fvars>>
dOthers == <<xvars, ovars, tvars, rvars, evars, cvars, fvars>>
rOthers == <<xvars, ovars, tvars, dvars, evars, cvars, fvars>>
eOthers == <<xvars, ovars, tvars, dvars, rvars, cvars, fvars>>
cOthers == <<xvars, ovars, tvars, dvars, rvars, evars, fvars>>
fOthers == <<xvars, ovars, tvars, dvars, rvars, evars, cvars>>

(***************************************************************************)
(* Helpers on sequences.                                                   *)
(***************************************************************************)
Last(s) == s[Len(s)]

SeqsUpTo(S, n) == UNION {[1..k -> S] : k \in 0..n}

(***************************************************************************)
(* 1. decode_xref_stream  (src/src/parser_aux.rs 446-529)                  *)
(***************************************************************************)

\* The largest number of rows the Index of an input stream declares in all.
MaxRows == 2

\* First object numbers of the subsections of the inputs.
Starts == {0, 1}

\* A flat Index array: (start, count) pairs, with or without an unpaired
\* trailing element.
IndexPairs == {<<s, c>> : s \in Starts, c \in 0..MaxRows}

IndexLists ==
    LET even == {<<>>} \cup IndexPairs
                \cup {p \o q : p \in IndexPairs, q \in IndexPairs}
        fits(l) == (IF Len(l) >= 2 THEN l[2] ELSE 0)
                   + (IF Len(l) >= 4 THEN l[4] ELSE 0) <= MaxRows
    IN  {l \in even : fits(l)} \cup {l \o <<1>> : l \in {m \in even : fits(m)}}

\* The W arrays of the inputs: valid ones, one that is too short, one with a
\* negative width, one with more than three elements.
WidthInputs ==
    { <<1, 1, 1>>, <<0, 4, 0>>, <<1, 5, 3>>, <<1, 2, 0>>, <<0, 1, 2>>,
      <<1, 1, 1, 7>>, <<1, 1>>, <<1, 0 - 1, 1>> }

\* The type values the rows of the inputs carry in their first field.
TypeValues == 0..3


\* u32: value << 8.  (value * 256) mod 2^32 = (value mod 2^24) * 256.
Shl8U32(value) == (value % 16777216) * 256

\* read_big_endian_integer's loop over the buffer, on the bytes read.
RECURSIVE BigEndianFrom(_, _)
BigEndianFrom(value, buffer) ==
    IF buffer = <<>> THEN value
    ELSE BigEndianFrom(Shl8U32(value) + Head(buffer), Tail(buffer))

read_big_endian_integer(buffer) == BigEndianFrom(0, buffer)

\* `as u16`.
AsU16(v) == v % 65536

\* Index, or [0, Size] when Index is absent or no integer array.
section_indice(dict) ==
    IF IsSome(dict.Index) THEN Get(dict.Index) ELSE <<0, Get(dict.Size)>>

field_widths(dict) == Get(dict.W)

\* The check of W at lines 467-473.
WidthsInvalid(w) == Len(w) < 3 \/ w[1] < 0 \/ w[2] < 0 \/ w[3] < 0

\* The type of a row, had a row without a type field been a free row.
entry_type_default_free(bytes1) ==
    IF bytes1 # <<>> THEN read_big_endian_integer(bytes1) ELSE 0

\* The type of a row: its first field, or 1 when W[0] = 0.
entry_type(bytes1) ==
    IF bytes1 # <<>> THEN read_big_endian_integer(bytes1) ELSE 1

\* The generation of a normal row: its third field, or 0 when W[2] = 0.
generation_of(bytes3) ==
    AsU16(IF bytes3 # <<>> THEN read_big_endian_integer(bytes3) ELSE 0)

\* Xref::insert: the entry of an object number is set, or replaced.
XrefInsert(xref, id, entry) ==
    [n \in DOMAIN xref \cup {id} |-> IF n = id THEN entry ELSE xref[n]]

NormalEntry(offset, generation) ==
    [kind |-> "Normal", offset |-> offset, generation |-> generation]

CompressedEntry(container, index) ==
    [kind |-> "Compressed", container |-> container, index |-> index]

\* The contents a field of width w may hold: a first byte of 0 or 1, a last
\* byte of 2, zeros between (for w = 1 the one byte is 0 or 1).
FieldBytes(w) ==
    {[i \in 1..w |-> IF i = 1 THEN t ELSE IF i = w THEN 2 ELSE 0] : t \in {0, 1}}

\* The contents of a type field of width w.
RECURSIVE ByteAt(_, _)
ByteAt(v, k) == IF k = 0 THEN v % 256 ELSE ByteAt(v \div 256, k - 1)

\* The big-endian encoding of v over w bytes (the hand-built encoder).
BigEndianBytes(v, w) == [i \in 1..w |-> ByteAt(v, w - i)]

TypeBytes(w) == {BigEndianBytes(t, w) : t \in TypeValues}

XrefIdle ==
    /\ xDict = [Size |-> None, Index |-> None, W |-> None]
    /\ xPc = "idle"
    /\ xPair = 0
    /\ xRow = 0
    /\ xContent = <<>>
    /\ xXref = <<>>
    /\ xRet = "none"

XrefInit ==
    /\ xDict \in [Size : {None} \cup {Some(n) : n \in 1..MaxRows},
                  Index : {None} \cup {Some(l) : l \in IndexLists},
                  W : {None} \cup {Some(w) : w \in WidthInputs}]
    /\ xPc = "start"
    /\ xPair = 0
    /\ xRow = 0
    /\ xContent = <<>>
    /\ xXref = <<>>
    /\ xRet = "none"

\* Lines 452-473: Size, Index and W are read and W is checked.
XrefStart ==
    /\ xPc = "start"
    /\ IF \/ ~IsSome(xDict.Size)
          \/ ~IsSome(xDict.W)
          \/ WidthsInvalid(field_widths(xDict))
       THEN xPc' = "done" /\ xRet' = "InvalidXref"
       ELSE xPc' = "rows" /\ xRet' = xRet
    /\ UNCHANGED <<xDict, xPair, xRow, xContent, xXref>>
    /\ UNCHANGED xOthers

NumPairs == Len(section_indice(xDict)) \div 2
PairStart == section_indice(xDict)[2 * xPair + 1]
PairCount == section_indice(xDict)[2 * xPair + 2]
Width(k) == field_widths(xDict)[k]

AtRow == xPc = "rows" /\ xPair < NumPairs /\ xRow < PairCount

\* Line 490-494: a free row; its three fields are consumed.
XrefRowFree ==
    /\ AtRow
    /\ \E b1 \in TypeBytes(Width(1)), b2 \in FieldBytes(Width(2)),
          b3 \in FieldBytes(Width(3)) :
        /\ entry_type(b1) = 0
        /\ xContent' = xContent \o b1 \o b2 \o b3
    /\ xRow' = xRow + 1
    /\ UNCHANGED <<xDict, xPc, xPair, xXref, xRet>>
    /\ UNCHANGED xOthers

\* Lines 495-504: a normal row.
XrefRowNormal ==
    /\ AtRow
    /\ \E b1 \in TypeBytes(Width(1)), b2 \in FieldBytes(Width(2)),
          b3 \in FieldBytes(Width(3)) :
        /\ entry_type(b1) = 1
        /\ xContent' = xContent \o b1 \o b2 \o b3
        /\ xXref' = XrefInsert(xXref, PairStart + xRow,
                        NormalEntry(read_big_endian_integer(b2), generation_of(b3)))
    /\ xRow' = xRow + 1
    /\ UNCHANGED <<xDict, xPc, xPair, xRet>>
    /\ UNCHANGED xOthers

\* Lines 505-510: a compressed row.
XrefRowCompressed ==
    /\ AtRow
    /\ \E b1 \in TypeBytes(Width(1)), b2 \in FieldBytes(Width(2)),
          b3 \in FieldBytes(Width(3)) :
        /\ entry_type(b1) = 2
        /\ xContent' = xContent \o b1 \o b2 \o b3
        /\ xXref' = XrefInsert(xXref, PairStart + xRow,
                        CompressedEntry(read_big_endian_integer(b2),
                                        AsU16(read_big_endian_integer(b3))))
    /\ xRow' = xRow + 1
    /\ UNCHANGED <<xDict, xPc, xPair, xRet>>
    /\ UNCHANGED xOthers

\* Line 511: any other type; only the type field has been consumed.
XrefRowOther ==
    /\ AtRow
    /\ \E b1 \in TypeBytes(Width(1)) :
        /\ entry_type(b1) \notin {0, 1, 2}
        /\ xContent' = xContent \o b1
    /\ xRow' = xRow + 1
    /\ UNCHANGED <<xDict, xPc, xPair, xXref, xRet>>
    /\ UNCHANGED xOthers

\* read_exact fails: the content ends inside the row; the error is returned.
XrefRowEof ==
    /\ AtRow
    /\ Width(1) + Width(2) + Width(3) > 0
    /\ xPc' = "done"
    /\ xRet' = "IO"
    /\ UNCHANGED <<xDict, xPair, xRow, xContent, xXref>>
    /\ UNCHANGED xOthers

\* Line 479/483: the rows of pair i are read; on to pair i + 1.
XrefNextPair ==
    /\ xPc = "rows" /\ xPair < NumPairs /\ xRow >= PairCount
    /\ xPair' = xPair + 1
    /\ xRow' = 0
    /\ UNCHANGED <<xDict, xPc, xContent, xXref, xRet>>
    /\ UNCHANGED xOthers

\* Lines 516-519: Length, W and Index leave the dictionary; Ok((xref, dict)).
XrefFinish ==
    /\ xPc = "rows" /\ xPair >= NumPairs
    /\ xPc' = "done"
    /\ xRet' = "Ok"
    /\ xDict' = [xDict EXCEPT !.W = None, !.Index = None]
    /\ UNCHANGED <<xPair, xRow, xContent, xXref>>
    /\ UNCHANGED xOthers

XrefNext ==
    \/ XrefStart
    \/ XrefRowFree
    \/ XrefRowNormal
    \/ XrefRowCompressed
    \/ XrefRowOther
    \/ XrefRowEof
    \/ XrefNextPair
    \/ XrefFinish

(***************************************************************************)
(* 2. ObjectStream::new  (src/src/object_stream.rs 17-67)                  *)
(***************************************************************************)

\* The largest number of whitespace-separated tokens before the objects.
MaxTokens == 4

\* The longest object section of an input.
MaxObjBytes == 2

\* Bytes are written as one-character strings; "#" is a byte that is no
\* valid UTF-8 (and starts no object).
Digits == {"0", "1", "2", "7"}
Whitespace == {" "}

\* The tokens of the inputs: numbers, and one that is no number.
Tokens == { <<"0">>, <<"1">>, <<"x", "2">> }

ObjSections == SeqsUpTo({"7", "#"}, MaxObjBytes)

\* The index text of a token list: every token followed by a space.
RECURSIVE JoinTokens(_)
JoinTokens(ts) ==
    IF ts = <<>> THEN <<>> ELSE Head(ts) \o <<" ">> \o JoinTokens(Tail(ts))

Contents ==
    {JoinTokens(ts) \o os : ts \in SeqsUpTo(Tokens, MaxTokens), os \in ObjSections}

\* A stream of the inputs. `plain` is what the stream's filters decode `raw`
\* to: None when Stream::decompress fails (no filter, or a broken one).
StreamInputs ==
    {[raw |-> c, plain |-> None] : c \in Contents}
        \cup {[raw |-> <<"Z">>, plain |-> Some(c)] : c \in Contents}


\* A decompress that clears the content when decoding fails.
decompress_clears_on_failure(stream) ==
    IF IsSome(stream.plain) THEN Get(stream.plain) ELSE <<>>

\* Stream::decompress as ObjectStream::new uses it: the content becomes the
\* decoded bytes, or stays as it is when decoding fails.
decompress(stream) ==
    IF IsSome(stream.plain) THEN Get(stream.plain) ELSE stream.raw

\* std::str::from_utf8 succeeds.
IsUtf8(bytes) == \A i \in 1..Len(bytes) : bytes[i] # "#"

\* str::split_whitespace.
RECURSIVE SplitFrom(_, _, _)
SplitFrom(s, cur, acc) ==
    IF s = <<>> THEN (IF cur = <<>> THEN acc ELSE Append(acc, cur))
    ELSE IF Head(s) \in Whitespace
         THEN SplitFrom(Tail(s), <<>>, IF cur = <<>> THEN acc ELSE Append(acc, cur))
         ELSE SplitFrom(Tail(s), Append(cur, Head(s)), acc)

split_whitespace(s) == SplitFrom(s, <<>>, <<>>)

DigitValue(c) ==
    CASE c = "0" -> 0 [] c = "1" -> 1 [] c = "2" -> 2 [] c = "7" -> 7

RECURSIVE DecimalFrom(_, _)
DecimalFrom(value, s) ==
    IF s = <<>> THEN value ELSE DecimalFrom(10 * value + DigitValue(Head(s)), Tail(s))

\* u32::from_str(number).ok(): decimal digits after an optional "+".  (The
\* tokens of the inputs are short: none exceeds u32::MAX.)
u32_from_str(number) ==
    LET digits == IF number # <<>> /\ Head(number) = "+" THEN Tail(number) ELSE number
    IN  IF digits # <<>> /\ \A i \in 1..Len(digits) : digits[i] \in Digits
        THEN Some(DecimalFrom(0, digits))
        ELSE None

\* numbers, had the tokens that are no numbers been filtered out.
NumbersOf_filtered(index_block) ==
    LET ts == split_whitespace(index_block)
    IN  SelectSeq([i \in 1..Len(ts) |-> u32_from_str(ts[i])], IsSome)

\* numbers, line 38-41.
NumbersOf(index_block) ==
    LET ts == split_whitespace(index_block)
    IN  [i \in 1..Len(ts) |-> u32_from_str(ts[i])]

\* The longest prefix of digits.
RECURSIVE DigitPrefix(_)
DigitPrefix(s) ==
    IF s = <<>> \/ Head(s) \notin Digits THEN <<>>
    ELSE <<Head(s)>> \o DigitPrefix(Tail(s))

\* parser::direct_object on the bytes from an offset: an integer object when
\* they start with digits, nothing otherwise.
direct_object(input) ==
    IF DigitPrefix(input) # <<>>
    THEN Some([type |-> "Integer", value |-> DecimalFrom(0, DigitPrefix(input))])
    ELSE None

\* chunks_filter_map, had the offset not been made absolute.
chunks_filter_map_relative(numbers, first_offset, content, k) ==
    LET id == numbers[2 * k - 1]
        rel == numbers[2 * k]
    IN  IF ~IsSome(id) \/ ~IsSome(rel) THEN None
        ELSE LET offset == Get(rel) IN
             IF offset >= Len(content) THEN None
             ELSE LET object == direct_object(SubSeq(content, offset + 1, Len(content)))
                  IN  IF IsSome(object) THEN Some(<<<<Get(id), 0>>, Get(object)>>)
                      ELSE None

\* chunks_filter_map, lines 49-60, on chunk k (from 1) of numbers[..len].
chunks_filter_map(numbers, first_offset, content, k) ==
    LET id == numbers[2 * k - 1]
        rel == numbers[2 * k]
    IN  IF ~IsSome(id) \/ ~IsSome(rel) THEN None
        ELSE LET offset == first_offset + Get(rel) IN
             IF offset >= Len(content) THEN None
             ELSE LET object == direct_object(SubSeq(content, offset + 1, Len(content)))
                  IN  IF IsSome(object) THEN Some(<<<<Get(id), 0>>, Get(object)>>)
                      ELSE None

\* BTreeMap::insert.
MapInsert(m, key, value) ==
    [k \in DOMAIN m \cup {key} |-> IF k = key THEN value ELSE m[k]]

\* Line 64: an item of chunks(2).filter_map(..) reaches the collected map.
collect_seq(objects, item) ==
    IF IsSome(item) THEN MapInsert(objects, Get(item)[1], Get(item)[2]) ELSE objects

\* A collect that loses the items collected before (a lost update).
collect_par_lost_update(objects, item) ==
    IF IsSome(item) THEN MapInsert(<<>>, Get(item)[1], Get(item)[2]) ELSE objects

\* Line 62: an item of par_chunks(2).filter_map(..) reaches the collected map.
collect_par(objects, item) ==
    IF IsSome(item) THEN MapInsert(objects, Get(item)[1], Get(item)[2]) ELSE objects

ObjIdle ==
    /\ oStream = [raw |-> <<>>, plain |-> None, First |-> None, N |-> None]
    /\ oRayon = FALSE
    /\ oPc = "idle"
    /\ oContent = <<>>
    /\ oNumbers = <<>>
    /\ oPending = {}
    /\ oObjects = <<>>
    /\ oRet = "none"

ObjInit ==
    /\ \E s \in StreamInputs :
       \E first \in {None} \cup {Some(f) : f \in (0 - 1)..(Len(decompress(s)) + 1)} :
       \E n \in {None, Some(1)} :
            oStream = [raw |-> s.raw, plain |-> s.plain, First |-> first, N |-> n]
    /\ oRayon \in BOOLEAN
    /\ oPc = "start"
    /\ oContent = <<>>
    /\ oNumbers = <<>>
    /\ oPending = {}
    /\ oObjects = <<>>
    /\ oRet = "none"

\* Lines 18-47: up to the numbers of the index block and the check of N.
ObjNew ==
    /\ oPc = "start"
    /\ LET content == decompress(oStream)
           first == oStream.First
       IN  /\ oContent' = content
           /\ IF content = <<>>
              THEN /\ oPc' = "done" /\ oRet' = "Ok"
                   /\ UNCHANGED <<oNumbers, oPending>>
              ELSE IF ~IsSome(first)
              THEN /\ oPc' = "done" /\ oRet' = "First"
                   /\ UNCHANGED <<oNumbers, oPending>>
              ELSE IF Get(first) < 0
              THEN /\ oPc' = "done" /\ oRet' = "NumericCast"
                   /\ UNCHANGED <<oNumbers, oPending>>
              ELSE IF Get(first) > Len(content)
              THEN /\ oPc' = "done" /\ oRet' = "InvalidOffset"
                   /\ UNCHANGED <<oNumbers, oPending>>
              ELSE IF ~IsUtf8(SubSeq(content, 1, Get(first)))
              THEN /\ oPc' = "done" /\ oRet' = "InvalidObjectStream"
                   /\ UNCHANGED <<oNumbers, oPending>>
              ELSE IF ~IsSome(oStream.N)
              THEN /\ oPc' = "done" /\ oRet' = "N"
                   /\ oNumbers' = NumbersOf(SubSeq(content, 1, Get(first)))
                   /\ UNCHANGED oPending
              ELSE /\ oPc' = "chunks" /\ oRet' = oRet
                   /\ oNumbers' = NumbersOf(SubSeq(content, 1, Get(first)))
                   /\ oPending' = 1..(Len(oNumbers') \div 2)
    /\ UNCHANGED <<oStream, oRayon, oObjects>>
    /\ UNCHANGED oOthers

\* Line 64: chunks(2).filter_map(..).collect() takes the chunks in order.
ObjSeqChunk ==
    /\ oPc = "chunks" /\ ~oRayon /\ oPending # {}
    /\ LET k == CHOOSE c \in oPending : \A d \in oPending : c <= d
       IN  /\ oObjects' = collect_seq(oObjects,
                   chunks_filter_map(oNumbers, Get(oStream.First), oContent, k))
           /\ oPending' = oPending \ {k}
    /\ UNCHANGED <<oStream, oRayon, oPc, oContent, oNumbers, oRet>>
    /\ UNCHANGED oOthers

\* Line 62: par_chunks(2).filter_map(..).collect(); the workers finish the
\* chunks in any order.
ObjParChunk ==
    /\ oPc = "chunks" /\ oRayon
    /\ \E k \in oPending :
        /\ oObjects' = collect_par(oObjects,
                chunks_filter_map(oNumbers, Get(oStream.First), oContent, k))
        /\ oPending' = oPending \ {k}
    /\ UNCHANGED <<oStream, oRayon, oPc, oContent, oNumbers, oRet>>
    /\ UNCHANGED oOthers

\* Line 66.
ObjReturn ==
    /\ oPc = "chunks" /\ oPending = {}
    /\ oPc' = "done"
    /\ oRet' = "Ok"
    /\ UNCHANGED <<oStream, oRayon, oContent, oNumbers, oPending, oObjects>>
    /\ UNCHANGED oOthers

ObjNext ==
    \/ ObjNew
    \/ ObjSeqChunk
    \/ ObjParChunk
    \/ ObjReturn

(***************************************************************************)
(* 3. Text extraction  (src/src/parser_aux.rs 48-139, 282-301)             *)
(***************************************************************************)

\* The longest page program the page-level specification walks through.
MaxOps == 5

\* Object, as far as content operands go.
StringObj(bytes) == [t |-> "String", b |-> bytes]
IntegerObj(i) == [t |-> "Integer", i |-> i]
ArrayObj(items) == [t |-> "Array", a |-> items]
NameObj(n) == [t |-> "Name", n |-> n]

\* Operation::new.
Operation(operator, operands) == [operator |-> operator, operands |-> operands]

\* Text is a sequence of characters.  Two one-byte encodings: under EncA the
\* bytes 1, 2, 3, 5 are "a", "b", line feed and "?"; EncB swaps "a" and "b".
\* Byte 4 decodes under neither, and "z" is a character neither encodes.
LF == "\n"

DecodeByte(encoding, byte) ==
    CASE byte = 1 -> Some(IF encoding = "EncA" THEN "a" ELSE "b")
      [] byte = 2 -> Some(IF encoding = "EncA" THEN "b" ELSE "a")
      [] byte = 3 -> Some(LF)
      [] byte = 5 -> Some("?")
      [] OTHER -> None

\* Document::decode_text: the text of the bytes, or None for an error.
RECURSIVE decode_text(_, _)
decode_text(encoding, bytes) ==
    IF bytes = <<>> THEN Some(<<>>)
    ELSE LET h == DecodeByte(encoding, Head(bytes))
             r == decode_text(encoding, Tail(bytes))
         IN  IF IsSome(h) /\ IsSome(r) THEN Some(<<Get(h)>> \o Get(r)) ELSE None

\* An element of Vec<Result<String>>.
OkChunk(text) == <<"Ok", text>>
ErrEntry(err) == <<"Err", err>>
IsOk(entry) == entry[1] = "Ok"

\* Lines 282-301 with the test of line 294 as `*i <= -100`.
RECURSIVE collect_text_at_gap(_, _, _)
collect_text_at_gap(text, encoding, operands) ==
    IF operands = <<>> THEN [text |-> text, ok |-> TRUE]
    ELSE LET operand == Head(operands) IN
         CASE operand.t = "String" ->
                LET decoded == decode_text(encoding, operand.b) IN
                IF IsSome(decoded)
                THEN collect_text_at_gap(text \o Get(decoded), encoding, Tail(operands))
                ELSE [text |-> text, ok |-> FALSE]
           [] operand.t = "Array" ->
                LET r == collect_text_at_gap(text, encoding, operand.a) IN
                IF r.ok
                THEN collect_text_at_gap(Append(r.text, " "), encoding, Tail(operands))
                ELSE r
           [] operand.t = "Integer" ->
                collect_text_at_gap(IF operand.i <= 0 - 100 THEN Append(text, " ")
                                    ELSE text,
                                    encoding, Tail(operands))
           [] OTHER -> collect_text_at_gap(text, encoding, Tail(operands))

\* collect_text, lines 282-301: [text, ok], text being the accumulator as the
\* call leaves it and ok whether it returned Ok(()).
RECURSIVE collect_text(_, _, _)
collect_text(text, encoding, operands) ==
    IF operands = <<>> THEN [text |-> text, ok |-> TRUE]
    ELSE LET operand == Head(operands) IN
         CASE operand.t = "String" ->
                LET decoded == decode_text(encoding, operand.b) IN
                IF IsSome(decoded)
                THEN collect_text(text \o Get(decoded), encoding, Tail(operands))
                ELSE [text |-> text, ok |-> FALSE]
           [] operand.t = "Array" ->
                LET r == collect_text(text, encoding, operand.a) IN
                IF r.ok
                THEN collect_text(Append(r.text, " "), encoding, Tail(operands))
                ELSE r
           [] operand.t = "Integer" ->
                collect_text(IF operand.i < 0 - 100 THEN Append(text, " ") ELSE text,
                             encoding, Tail(operands))
           [] OTHER -> collect_text(text, encoding, Tail(operands))

\* The fonts of a page, by resource name: the encoding of each, or None when
\* Font::get_font_encoding fails.
FontNames == <<"F1", "F2">>

FontInputs ==
    { [F1 |-> Some("EncA"), F2 |-> Some("EncB")],
      [F1 |-> Some("EncA"), F2 |-> None] }

\* Lines 80-89: the encodings that resolve, by font name ...
EncodingsOf(fonts) ==
    [n \in {m \in DOMAIN fonts : IsSome(fonts[m])} |-> Get(fonts[n])]

\* ... and one error for each font whose encoding does not, in key order.
FontErrors(fonts) ==
    LET failed(n) == ~IsSome(fonts[n])
        names == SelectSeq(FontNames, failed)
    IN  [i \in 1..Len(names) |-> ErrEntry(<<"FontEncoding">>)]

\* The state of the loop over the operations, lines 94-133: current_encoding,
\* current_text, collected_chunks_and_errs, and whether `?` has returned.
LoopState(enc, text, out, fatal) ==
    [enc |-> enc, text |-> text, out |-> out, fatal |-> fatal]

LoopStart(fonts) == LoopState(None, <<>>, FontErrors(fonts), FALSE)

\* Lines 112-115 without the test of current_text: every Tf emits a chunk.
flush_always(text, out) == Append(out, OkChunk(text))

\* Lines 112-115 and 134-136: current_text becomes a chunk when not empty.
flush(text, out) == IF text # <<>> THEN Append(out, OkChunk(text)) ELSE out

\* Lines 98-116 without lines 112-115: the text is kept across the Tf.
TfStep_keeps_text(st, operands, encodings) ==
    IF operands = <<>> THEN [st EXCEPT !.fatal = TRUE]
    ELSE LET font == operands[1]
             named == font.t = "Name"
         IN  LoopState(IF named /\ font.n \in DOMAIN encodings
                       THEN Some(encodings[font.n]) ELSE None,
                       st.text,
                       IF named THEN st.out
                       ELSE Append(st.out, ErrEntry(<<"ObjectType">>)),
                       FALSE)

\* Lines 98-116.
TfStep(st, operands, encodings) ==
    IF operands = <<>> THEN [st EXCEPT !.fatal = TRUE]
    ELSE LET font == operands[1]
             named == font.t = "Name"
             out1 == IF named THEN st.out
                     ELSE Append(st.out, ErrEntry(<<"ObjectType">>))
         IN  LoopState(IF named /\ font.n \in DOMAIN encodings
                       THEN Some(encodings[font.n]) ELSE None,
                       <<>>, flush(st.text, out1), FALSE)

\* Lines 117-125.
ShowStep(st, operands) ==
    IF IsSome(st.enc)
    THEN LET r == collect_text(st.text, Get(st.enc), operands)
         IN  [st EXCEPT !.text = r.text,
                        !.out = IF r.ok THEN st.out
                                ELSE Append(st.out, ErrEntry(<<"Decode">>))]
    ELSE st

\* Lines 126-130, had ET pushed the line break unconditionally.
EtStep_always(st) == [st EXCEPT !.text = Append(st.text, LF)]

\* Lines 126-130.
EtStep(st) ==
    IF st.text # <<>> /\ Last(st.text) = LF THEN st
    ELSE [st EXCEPT !.text = Append(st.text, LF)]

\* Lines 96-132: one operation.
OpStep(st, op, encodings) ==
    CASE op.operator = "Tf" -> TfStep(st, op.operands, encodings)
      [] op.operator \in {"Tj", "TJ"} -> ShowStep(st, op.operands)
      [] op.operator = "ET" -> EtStep(st)
      [] OTHER -> st

\* Lines 134-138 after the loop.
EndStep(st) == [st EXCEPT !.text = <<>>, !.out = flush(st.text, st.out)]

\* The operations the page programs of the inputs are made of.
TfOps ==
    { Operation("Tf", <<NameObj("F1"), IntegerObj(12)>>),
      Operation("Tf", <<NameObj("F2"), IntegerObj(12)>>),
      Operation("Tf", <<IntegerObj(12)>>),
      Operation("Tf", <<>>) }

ShowOps ==
    { Operation("Tj", <<StringObj(<<1>>)>>),
      Operation("Tj", <<StringObj(<<2, 3>>)>>),
      Operation("Tj", <<StringObj(<<4>>)>>),
      Operation("TJ", <<ArrayObj(<<StringObj(<<1>>), IntegerObj(0 - 120),
                                   StringObj(<<2>>)>>)>>) }

EtOps == { Operation("ET", <<>>) }

OtherOps == { Operation("BT", <<>>) }

(* ---- one page, operation by operation ---- *)

ExtIdle ==
    /\ tFonts = [F1 |-> None, F2 |-> None]
    /\ tProg = <<>>
    /\ tState = LoopState(None, <<>>, <<>>, FALSE)
    /\ tPc = "idle"

ExtInit ==
    /\ tFonts \in FontInputs
    /\ tProg = <<>>
    /\ tState = LoopState(None, <<>>, <<>>, FALSE)
    /\ tPc = "start"

\* Lines 79-95: the encodings of the page's fonts; the program is decoded.
ExtStart ==
    /\ tPc = "start"
    /\ tState' = LoopStart(tFonts)
    /\ tPc' = "ops"
    /\ UNCHANGED <<tFonts, tProg>>
    /\ UNCHANGED tOthers

\* Lines 96-116: the next operation of the program is a Tf.
ExtTf ==
    /\ tPc = "ops"
    /\ Len(tProg) < MaxOps
    /\ \E op \in TfOps :
          /\ tProg' = Append(tProg, op)
          /\ tState' = OpStep(tState, op, EncodingsOf(tFonts))
    /\ tPc' = IF tState'.fatal THEN "done" ELSE "ops"
    /\ UNCHANGED tFonts
    /\ UNCHANGED tOthers

\* Lines 117-125: the next operation is a Tj or a TJ.
ExtShow ==
    /\ tPc = "ops"
    /\ Len(tProg) < MaxOps
    /\ \E op \in ShowOps :
          /\ tProg' = Append(tProg, op)
          /\ tState' = OpStep(tState, op, EncodingsOf(tFonts))
    /\ tPc' = IF tState'.fatal THEN "done" ELSE "ops"
    /\ UNCHANGED tFonts
    /\ UNCHANGED tOthers

\* Lines 126-130: the next operation is an ET.
ExtET ==
    /\ tPc = "ops"
    /\ Len(tProg) < MaxOps
    /\ \E op \in EtOps :
          /\ tProg' = Append(tProg, op)
          /\ tState' = OpStep(tState, op, EncodingsOf(tFonts))
    /\ tPc' = IF tState'.fatal THEN "done" ELSE "ops"
    /\ UNCHANGED tFonts
    /\ UNCHANGED tOthers

\* Line 131: the next operation is any other.
ExtOther ==
    /\ tPc = "ops"
    /\ Len(tProg) < MaxOps
    /\ \E op \in OtherOps :
          /\ tProg' = Append(tProg, op)
          /\ tState' = OpStep(tState, op, EncodingsOf(tFonts))
    /\ tPc' = IF tState'.fatal THEN "done" ELSE "ops"
    /\ UNCHANGED tFonts
    /\ UNCHANGED tOthers

\* Lines 134-138: the program is at its end.
ExtEnd ==
    /\ tPc = "ops"
    /\ tState' = EndStep(tState)
    /\ tPc' = "done"
    /\ UNCHANGED <<tFonts, tProg>>
    /\ UNCHANGED tOthers

ExtNext ==
    \/ ExtStart
    \/ ExtTf
    \/ ExtShow
    \/ ExtET
    \/ ExtOther
    \/ ExtEnd

(* ---- a document, page by page ---- *)

\* The most pages a document of the inputs has, and the longest list of page
\* numbers requested.
MaxPages == 2
MaxRequest == 2

Page(fonts, prog) == [fonts |-> fonts, prog |-> prog]

BothFonts == [F1 |-> Some("EncA"), F2 |-> Some("EncB")]

\* The page creator::tests::create_document_with_texts builds for a text.
TextPage(bytes) ==
    Page(BothFonts,
         << Operation("BT", <<>>),
            Operation("Tf", <<NameObj("F1"), IntegerObj(12)>>),
            Operation("Tj", <<StringObj(bytes)>>),
            Operation("ET", <<>>) >>)

TextBytes == { <<1>>, <<2, 1>>, <<1, 3>> }

\* The pages of the documents of the inputs: a page for each text; a page
\* with two fonts; one with a font that does not resolve; one whose text
\* does not decode; one whose Tf has no operand; an empty page.
DocPages ==
    {TextPage(b) : b \in TextBytes} \cup
    { Page(BothFonts,
           << Operation("Tf", <<NameObj("F1"), IntegerObj(12)>>),
              Operation("Tj", <<StringObj(<<1>>)>>),
              Operation("Tf", <<NameObj("F2"), IntegerObj(12)>>),
              Operation("Tj", <<StringObj(<<1>>)>>),
              Operation("ET", <<>>) >>),
      Page([F1 |-> Some("EncA"), F2 |-> None],
           << Operation("Tf", <<NameObj("F1"), IntegerObj(12)>>),
              Operation("Tj", <<StringObj(<<2>>)>>) >>),
      Page(BothFonts,
           << Operation("Tf", <<NameObj("F1"), IntegerObj(12)>>),
              Operation("Tj", <<StringObj(<<1>>)>>),
              Operation("Tj", <<StringObj(<<4>>)>>),
              Operation("ET", <<>>) >>),
      Page(BothFonts,
           << Operation("Tf", <<NameObj("F1"), IntegerObj(12)>>),
              Operation("Tj", <<StringObj(<<1>>)>>),
              Operation("Tf", <<>>) >>),
      Page(BothFonts, <<>>) }

\* Lines 96-133 over a whole program; `?` at a Tf ends the loop.
RECURSIVE RunOps(_, _, _)
RunOps(st, prog, encodings) ==
    IF prog = <<>> \/ st.fatal THEN st
    ELSE RunOps(OpStep(st, Head(prog), encodings), Tail(prog), encodings)

\* Document::get_pages: the pages are numbered from 1.
PageNumbers(doc) == 1..Len(doc)

\* extract_text_chunks_from_page, lines 73-139: Ok(chunks and errors) or Err.
extract_text_chunks_from_page(doc, page_number) ==
    IF page_number \notin PageNumbers(doc)
    THEN [ok |-> FALSE, err |-> <<"PageNumberNotFound", page_number>>]
    ELSE LET page == doc[page_number]
             st == RunOps(LoopStart(page.fonts), page.prog, EncodingsOf(page.fonts))
         IN  IF st.fatal THEN [ok |-> FALSE, err |-> <<"Syntax">>]
             ELSE [ok |-> TRUE, chunks |-> EndStep(st).out]

\* Lines 65-68, had the error of a page been dropped.
flat_map_item_drop_err(result) ==
    IF result.ok THEN result.chunks ELSE <<>>

\* Lines 65-68: what a page contributes to extract_text_chunks.
flat_map_item(result) ==
    IF result.ok THEN result.chunks ELSE <<ErrEntry(result.err)>>

\* Lines 50-56, had extract_text skipped the errors.
RECURSIVE extract_text_loop_skip(_, _)
extract_text_loop_skip(text, fragments) ==
    IF fragments = <<>> THEN OkChunk(text)
    ELSE IF IsOk(Head(fragments))
         THEN extract_text_loop_skip(text \o Head(fragments)[2], Tail(fragments))
         ELSE extract_text_loop_skip(text, Tail(fragments))

\* Lines 50-56: the loop of extract_text over the fragments; Ok(text) or the
\* error `?` returns.
RECURSIVE extract_text_loop(_, _)
extract_text_loop(text, fragments) ==
    IF fragments = <<>> THEN OkChunk(text)
    ELSE IF IsOk(Head(fragments))
         THEN extract_text_loop(text \o Head(fragments)[2], Tail(fragments))
         ELSE Head(fragments)

DocIdle ==
    /\ dDoc = <<>>
    /\ dRequest = <<>>
    /\ dIdx = 0
    /\ dChunks = <<>>
    /\ dText = <<>>
    /\ dPc = "idle"

DocInit ==
    /\ dDoc \in SeqsUpTo(DocPages, MaxPages)
    /\ dRequest \in SeqsUpTo(0..(MaxPages + 1), MaxRequest)
    /\ dIdx = 0
    /\ dChunks = <<>>
    /\ dText = <<>>
    /\ dPc = "chunks"

\* Lines 61-70, one page number of the list that is a page of the document.
DocPageFound ==
    /\ dPc = "chunks" /\ dIdx < Len(dRequest)
    /\ dRequest[dIdx + 1] \in PageNumbers(dDoc)
    /\ dChunks' = dChunks \o
            flat_map_item(extract_text_chunks_from_page(dDoc, dRequest[dIdx + 1]))
    /\ dIdx' = dIdx + 1
    /\ UNCHANGED <<dDoc, dRequest, dText, dPc>>
    /\ UNCHANGED dOthers

\* Lines 61-70, one page number of the list that is no page of the document.
DocPageNotFound ==
    /\ dPc = "chunks" /\ dIdx < Len(dRequest)
    /\ dRequest[dIdx + 1] \notin PageNumbers(dDoc)
    /\ dChunks' = dChunks \o
            flat_map_item(extract_text_chunks_from_page(dDoc, dRequest[dIdx + 1]))
    /\ dIdx' = dIdx + 1
    /\ UNCHANGED <<dDoc, dRequest, dText, dPc>>
    /\ UNCHANGED dOthers

\* Lines 49-56: extract_text_chunks has returned; extract_text joins.
DocExtractText ==
    /\ dPc = "chunks" /\ dIdx = Len(dRequest)
    /\ dText' = extract_text_loop(<<>>, dChunks)
    /\ dPc' = "done"
    /\ UNCHANGED <<dDoc, dRequest, dIdx, dChunks>>
    /\ UNCHANGED dOthers

DocNext ==
    \/ DocPageFound
    \/ DocPageNotFound
    \/ DocExtractText

(***************************************************************************)
(* 4. Text substitution  (src/src/parser_aux.rs 182-235, 326-344, 389-443) *)
(***************************************************************************)

\* The byte of a character under an encoding, None for "z", which neither
\* encoding represents.
EncodeChar(encoding, char) ==
    CASE char = "a" -> Some(IF encoding = "EncA" THEN 1 ELSE 2)
      [] char = "b" -> Some(IF encoding = "EncA" THEN 2 ELSE 1)
      [] char = LF -> Some(3)
      [] char = "?" -> Some(5)
      [] OTHER -> None

\* Document::encode_text: the bytes of the characters the encoding has; the
\* others are left out.
RECURSIVE encode_text(_, _)
encode_text(encoding, text) ==
    IF text = <<>> THEN <<>>
    ELSE LET h == EncodeChar(encoding, Head(text))
         IN  (IF IsSome(h) THEN <<Get(h)>> ELSE <<>>) \o encode_text(encoding, Tail(text))

\* encode, lines 326-344.
RECURSIVE encode(_, _, _)
encode(encoding, txt, default_str) ==
    IF Len(txt) > 1
    THEN encode(encoding, <<Head(txt)>>, default_str) \o
         encode(encoding, Tail(txt), default_str)
    ELSE LET encoded_bytes == encode_text(encoding, txt)
         IN  IF encoded_bytes # <<>> THEN encoded_bytes
             ELSE encode_text(encoding, default_str)

\* encode_with_fallback, lines 436-443.
encode_with_fallback(encoding, text, default_char) ==
    LET encoded == encode_text(encoding, text)
    IN  IF encoded # <<>> THEN encoded ELSE encode(encoding, text, default_char)

\* str::contains, str::replace and str::matches(..).count() as lines 399-402
\* use them, for a pattern that is not empty.
StartsWith(text, pat) == Len(pat) <= Len(text) /\ SubSeq(text, 1, Len(pat)) = pat

Skip(text, n) == SubSeq(text, n + 1, Len(text))

str_contains(text, pat) == \E i \in 0..Len(text) : StartsWith(Skip(text, i), pat)

RECURSIVE str_replace(_, _, _)
str_replace(text, from, to) ==
    IF text = <<>> THEN <<>>
    ELSE IF StartsWith(text, from)
         THEN to \o str_replace(Skip(text, Len(from)), from, to)
         ELSE <<Head(text)>> \o str_replace(Tail(text), from, to)

RECURSIVE str_matches_count(_, _)
str_matches_count(text, pat) ==
    IF text = <<>> THEN 0
    ELSE IF StartsWith(text, pat)
         THEN 1 + str_matches_count(Skip(text, Len(pat)), pat)
         ELSE str_matches_count(Tail(text), pat)

\* What a call leaves of the operands it walks: the operands, the count, and
\* whether it returned Ok.
Walked(operands, count, ok) == [operands |-> operands, count |-> count, ok |-> ok]

\* Lines 397-404 and 423-430: one string, partial mode.
replace_partial_in_string(operand, encoding, search_text, replacement_text, default_char) ==
    LET decoded_text == decode_text(encoding, operand.b) IN
    IF ~IsSome(decoded_text) THEN Walked(<<operand>>, 0, FALSE)
    ELSE IF str_contains(Get(decoded_text), search_text)
         THEN LET new_text == str_replace(Get(decoded_text), search_text, replacement_text)
              IN  Walked(<<StringObj(encode_with_fallback(encoding, new_text, default_char))>>,
                         str_matches_count(Get(decoded_text), search_text), TRUE)
         ELSE Walked(<<operand>>, 0, TRUE)

\* replace_partial_in_array, lines 416-434; an error leaves the loop.
RECURSIVE replace_partial_in_array(_, _, _, _, _)
replace_partial_in_array(arr, encoding, search_text, replacement_text, default_char) ==
    IF arr = <<>> THEN Walked(<<>>, 0, TRUE)
    ELSE LET item == IF Head(arr).t = "String"
                     THEN replace_partial_in_string(Head(arr), encoding, search_text,
                                                    replacement_text, default_char)
                     ELSE Walked(<<Head(arr)>>, 0, TRUE)
         IN  IF ~item.ok THEN Walked(arr, 0, FALSE)
             ELSE LET rest == replace_partial_in_array(Tail(arr), encoding, search_text,
                                                       replacement_text, default_char)
                  IN  Walked(item.operands \o rest.operands,
                             item.count + rest.count, rest.ok)

\* replace_partial_in_operation, lines 389-414.
RECURSIVE replace_partial_in_operation(_, _, _, _, _)
replace_partial_in_operation(operands, encoding, search_text, replacement_text, default_char) ==
    IF operands = <<>> THEN Walked(<<>>, 0, TRUE)
    ELSE LET operand == Head(operands)
             first == CASE operand.t = "String" ->
                             replace_partial_in_string(operand, encoding, search_text,
                                                       replacement_text, default_char)
                        [] operand.t = "Array" ->
                             LET r == replace_partial_in_array(operand.a, encoding,
                                          search_text, replacement_text, default_char)
                             IN  Walked(<<ArrayObj(r.operands)>>, r.count, r.ok)
                        [] OTHER -> Walked(<<operand>>, 0, TRUE)
         IN  IF ~first.ok THEN Walked(operands, 0, FALSE)
             ELSE LET rest == replace_partial_in_operation(Tail(operands), encoding,
                                  search_text, replacement_text, default_char)
                  IN  Walked(first.operands \o rest.operands,
                             first.count + rest.count, rest.ok)

\* The pages of the documents that text is substituted in.
TextProg(font, bytes) ==
    << Operation("Tf", <<NameObj(font), IntegerObj(12)>>),
       Operation("Tj", <<StringObj(bytes)>>) >>

ReplacePages ==
    { Page(BothFonts, <<Operation("BT", <<>>)>> \o TextProg("F1", <<1, 2, 1>>)
                      \o <<Operation("ET", <<>>)>>),
      Page(BothFonts,
           << Operation("Tf", <<NameObj("F1"), IntegerObj(12)>>),
              Operation("TJ", <<ArrayObj(<<StringObj(<<1, 1>>), IntegerObj(0 - 120),
                                           StringObj(<<2, 1>>)>>)>>),
              Operation("Tj", <<StringObj(<<1, 1, 1>>)>>) >>),
      Page(BothFonts, <<Operation("Tj", <<StringObj(<<1>>)>>)>> \o TextProg("F1", <<1, 1>>)),
      Page(BothFonts, TextProg("F1", <<1>>) \o
                      << Operation("Tf", <<>>), Operation("Tj", <<StringObj(<<1>>)>>) >>),
      Page(BothFonts, TextProg("F1", <<1>>) \o <<Operation("Tj", <<StringObj(<<4>>)>>)>>),
      Page(BothFonts, TextProg("F2", <<1, 2>>)),
      Page([F1 |-> Some("EncA"), F2 |-> None], TextProg("F1", <<1>>)),
      Page(BothFonts, TextProg("F1", <<2>>) \o <<Operation("Tf", <<IntegerObj(12)>>)>>),
      Page(BothFonts, TextProg("F3", <<1>>)),
      Page(BothFonts, <<Operation("BT", <<>>), Operation("ET", <<>>)>>) }

\* The search strings, none empty; the replacements; default_char.
SearchTexts == { <<"a">>, <<"a", "b">>, <<"a", "a">> }

ReplacementTexts == { <<>>, <<"b">>, <<"b", "a">>, <<"z">> }

DefaultChars == { None, Some(<<"b">>) }

\* u32::saturating_sub(1).
saturating_sub_1(n) == IF n = 0 THEN 0 ELSE n - 1

\* Result<usize>.
OkCount(n) == <<"Ok", n>>
Failed(err) == <<"Err", err>>

RepIdle ==
    /\ rDoc = <<>> /\ rStored = <<>> /\ rWrites = 0
    /\ rPageNumber = 0
    /\ rSearch = <<>> /\ rReplacement = <<>> /\ rDefault = None
    /\ rPage = 0 /\ rOps = <<>> /\ rIdx = 0
    /\ rEnc = None /\ rCount = 0
    /\ rPc = "idle" /\ rRet = None

RepInit ==
    /\ rDoc \in SeqsUpTo(ReplacePages, MaxPages) \ {<<>>}
    /\ rStored = rDoc /\ rWrites = 0
    /\ rPageNumber \in 0..(MaxPages + 1)
    /\ rSearch \in SearchTexts
    /\ rReplacement \in ReplacementTexts
    /\ rDefault \in DefaultChars
    /\ rPage = 0 /\ rOps = <<>> /\ rIdx = 0
    /\ rEnc = None /\ rCount = 0
    /\ rPc = "start" /\ rRet = None

\* Line 210: default_char.unwrap_or("?").
DefaultChar == IF IsSome(rDefault) THEN Get(rDefault) ELSE <<"?">>

\* Lines 185-189: page_iter().nth(page) finds no page.
RepPageNotFound ==
    /\ rPc = "start"
    /\ saturating_sub_1(rPageNumber) + 1 > Len(rStored)
    /\ rRet' = Failed(<<"PageNumberNotFound", rPageNumber>>)
    /\ rPc' = "done"
    /\ UNCHANGED <<rDoc, rStored, rWrites, rPageNumber, rSearch, rReplacement, rDefault,
                   rPage, rOps, rIdx, rEnc, rCount>>
    /\ UNCHANGED rOthers

\* Lines 191-195: the encoding of a font of the page does not resolve.
RepFontError ==
    /\ rPc = "start"
    /\ saturating_sub_1(rPageNumber) + 1 <= Len(rStored)
    /\ LET page == rStored[saturating_sub_1(rPageNumber) + 1]
       IN  \E n \in DOMAIN page.fonts : ~IsSome(page.fonts[n])
    /\ rRet' = Failed(<<"FontEncoding">>)
    /\ rPc' = "done"
    /\ UNCHANGED <<rDoc, rStored, rWrites, rPageNumber, rSearch, rReplacement, rDefault,
                   rPage, rOps, rIdx, rEnc, rCount>>
    /\ UNCHANGED rOthers

\* Lines 185-200: the page, its encodings, its decoded content.
RepStart ==
    /\ rPc = "start"
    /\ saturating_sub_1(rPageNumber) + 1 <= Len(rStored)
    /\ LET page == rStored[saturating_sub_1(rPageNumber) + 1]
       IN  /\ \A n \in DOMAIN page.fonts : IsSome(page.fonts[n])
           /\ rOps' = page.prog
    /\ rPage' = saturating_sub_1(rPageNumber) + 1
    /\ rPc' = "ops"
    /\ UNCHANGED <<rDoc, rStored, rWrites, rPageNumber, rSearch, rReplacement, rDefault,
                   rIdx, rEnc, rCount, rRet>>
    /\ UNCHANGED rOthers

RepEncodings == EncodingsOf(rStored[rPage].fonts)

\* Lines 204-211, had the Tf without operand stored what was replaced so
\* far before the error is returned.
RepTf_stores ==
    /\ rPc = "ops" /\ rIdx < Len(rOps)
    /\ rOps[rIdx + 1].operator = "Tf"
    /\ LET operands == rOps[rIdx + 1].operands IN
       IF operands = <<>>
       THEN /\ rRet' = Failed(<<"Syntax">>)
            /\ rPc' = "done"
            /\ rStored' = [rStored EXCEPT ![rPage].prog = rOps]
            /\ rWrites' = rWrites + 1
            /\ UNCHANGED <<rIdx, rEnc>>
       ELSE IF operands[1].t # "Name"
       THEN /\ rRet' = Failed(<<"ObjectType">>)
            /\ rPc' = "done"
            /\ UNCHANGED <<rIdx, rEnc, rStored, rWrites>>
       ELSE /\ rEnc' = IF operands[1].n \in DOMAIN RepEncodings
                       THEN Some(RepEncodings[operands[1].n]) ELSE None
            /\ rIdx' = rIdx + 1
            /\ UNCHANGED <<rRet, rPc, rStored, rWrites>>
    /\ UNCHANGED <<rDoc, rPageNumber, rSearch, rReplacement, rDefault,
                   rPage, rOps, rCount>>
    /\ UNCHANGED rOthers

\* Lines 204-211: Tf.
RepTf ==
    /\ rPc = "ops" /\ rIdx < Len(rOps)
    /\ rOps[rIdx + 1].operator = "Tf"
    /\ LET operands == rOps[rIdx + 1].operands IN
       IF operands = <<>>
       THEN /\ rRet' = Failed(<<"Syntax">>)
            /\ rPc' = "done"
            /\ UNCHANGED <<rIdx, rEnc>>
       ELSE IF operands[1].t # "Name"
       THEN /\ rRet' = Failed(<<"ObjectType">>)
            /\ rPc' = "done"
            /\ UNCHANGED <<rIdx, rEnc>>
       ELSE /\ rEnc' = IF operands[1].n \in DOMAIN RepEncodings
                       THEN Some(RepEncodings[operands[1].n]) ELSE None
            /\ rIdx' = rIdx + 1
            /\ UNCHANGED <<rRet, rPc>>
    /\ UNCHANGED <<rDoc, rStored, rWrites, rPageNumber, rSearch, rReplacement, rDefault,
                   rPage, rOps, rCount>>
    /\ UNCHANGED rOthers

\* Lines 212-224: Tj or TJ.
RepShow ==
    /\ rPc = "ops" /\ rIdx < Len(rOps)
    /\ rOps[rIdx + 1].operator \in {"Tj", "TJ"}
    /\ IF IsSome(rEnc)
       THEN LET r == replace_partial_in_operation(rOps[rIdx + 1].operands, Get(rEnc),
                         rSearch, rReplacement, DefaultChar)
            IN  IF r.ok
                THEN /\ rOps' = [rOps EXCEPT ![rIdx + 1].operands = r.operands]
                     /\ rCount' = rCount + r.count
                     /\ rIdx' = rIdx + 1
                     /\ UNCHANGED <<rRet, rPc>>
                ELSE /\ rRet' = Failed(<<"Decode">>)
                     /\ rPc' = "done"
                     /\ UNCHANGED <<rOps, rCount, rIdx>>
       ELSE /\ rIdx' = rIdx + 1
            /\ UNCHANGED <<rOps, rCount, rRet, rPc>>
    /\ UNCHANGED <<rDoc, rStored, rWrites, rPageNumber, rSearch, rReplacement, rDefault,
                   rPage, rEnc>>
    /\ UNCHANGED rOthers

\* Line 225: any other operation.
RepOther ==
    /\ rPc = "ops" /\ rIdx < Len(rOps)
    /\ rOps[rIdx + 1].operator \notin {"Tf", "Tj", "TJ"}
    /\ rIdx' = rIdx + 1
    /\ UNCHANGED <<rDoc, rStored, rWrites, rPageNumber, rSearch, rReplacement, rDefault,
                   rPage, rOps, rEnc, rCount, rPc, rRet>>
    /\ UNCHANGED rOthers

\* Lines 229-234 without the test of line 229: the content is stored.
RepFinish_always ==
    /\ rPc = "ops" /\ rIdx = Len(rOps)
    /\ rStored' = [rStored EXCEPT ![rPage].prog = rOps]
    /\ rWrites' = rWrites + 1
    /\ rRet' = OkCount(rCount)
    /\ rPc' = "done"
    /\ UNCHANGED <<rDoc, rPageNumber, rSearch, rReplacement, rDefault,
                   rPage, rOps, rIdx, rEnc, rCount>>
    /\ UNCHANGED rOthers

\* Lines 229-234: the content is stored when something was replaced.
RepFinish ==
    /\ rPc = "ops" /\ rIdx = Len(rOps)
    /\ rStored' = IF rCount > 0 THEN [rStored EXCEPT ![rPage].prog = rOps]
                  ELSE rStored
    /\ rWrites' = IF rCount > 0 THEN rWrites + 1 ELSE rWrites
    /\ rRet' = OkCount(rCount)
    /\ rPc' = "done"
    /\ UNCHANGED <<rDoc, rPageNumber, rSearch, rReplacement, rDefault,
                   rPage, rOps, rIdx, rEnc, rCount>>
    /\ UNCHANGED rOthers

RepNext ==
    \/ RepPageNotFound
    \/ RepFontError
    \/ RepStart
    \/ RepTf
    \/ RepShow
    \/ RepOther
    \/ RepFinish

(***************************************************************************)
(* 5. Exact substitution  (src/src/parser_aux.rs 141-180, 302-324, 345-387)*)
(***************************************************************************)

\* Object::Null.
NullObj == [t |-> "Null"]

Min(a, b) == IF a <= b THEN a ELSE b

\* substr, lines 302-321: `len` characters of s from character `start` on;
\* len.saturating_sub(1) makes a len of 0 take one character as well.
substr(s, start, len) ==
    IF start >= Len(s) THEN <<>>
    ELSE SubSeq(s, start + 1, Min(Len(s), start + (IF len = 0 THEN 1 ELSE len)))

\* substring, lines 322-324: s from character `start` on.
substring(s, start) ==
    IF start >= Len(s) THEN <<>> ELSE SubSeq(s, start + 1, Len(s))

\* usize::MAX, what 0 - 1 wraps to in a build without overflow checks.  The
\* largest integer of the checker stands for it: no slot index gets near.
UsizeMax == 2147483647

\* Line 365, s_len - 1 in such a build.
wrapping_sub_1(n) == IF n = 0 THEN UsizeMax ELSE n - 1

\* Lines 363-379: the loop over the items of a matching array, `cur` being
\* the index of the next string slot.
RECURSIVE replace_slots(_, _, _, _, _, _)
replace_slots(arr, cur, s_len, encoding, replacement, default_str) ==
    IF arr = <<>> THEN <<>>
    ELSE IF Head(arr).t # "String"
    THEN <<Head(arr)>> \o replace_slots(Tail(arr), cur, s_len, encoding,
                                        replacement, default_str)
    ELSE IF cur = wrapping_sub_1(s_len)
    THEN <<StringObj(encode(encoding, substring(replacement, cur), default_str))>>
         \o Tail(arr)
    ELSE (IF cur > Len(replacement) THEN <<NullObj>>
          ELSE <<StringObj(encode(encoding, substr(replacement, cur, 1), default_str))>>)
         \o replace_slots(Tail(arr), cur + 1, s_len, encoding, replacement, default_str)

HasStringItem(arr) == \E k \in 1..Len(arr) : arr[k].t = "String"

\* What try_to_replace_encoded_text leaves of the operands, and how it ended:
\* "ok", "err" for a decode error, "panic" for the subtraction 0 - 1 of line
\* 365 in a build with overflow checks.
Tried(operands, outcome) == [operands |-> operands, outcome |-> outcome]

\* Lines 350-356 without the comparison of line 352.
replace_exact_string_unmatched(operand, encoding, text_to_replace, replacement, default_str) ==
    LET decoded_text == decode_text(encoding, operand.b) IN
    IF ~IsSome(decoded_text) THEN Tried(<<operand>>, "err")
    ELSE Tried(<<StringObj(encode(encoding, replacement, default_str))>>, "ok")

\* Lines 350-356: a plain string operand.
replace_exact_string(operand, encoding, text_to_replace, replacement, default_str) ==
    LET decoded_text == decode_text(encoding, operand.b) IN
    IF ~IsSome(decoded_text) THEN Tried(<<operand>>, "err")
    ELSE IF Get(decoded_text) = text_to_replace
         THEN Tried(<<StringObj(encode(encoding, replacement, default_str))>>, "ok")
         ELSE Tried(<<operand>>, "ok")

\* Lines 357-382: an array operand.
replace_exact_array(operand, encoding, text_to_replace, replacement, default_str, overflow_checks) ==
    LET collected == collect_text(<<>>, encoding, operand.a) IN
    IF ~collected.ok THEN Tried(<<operand>>, "err")
    ELSE IF collected.text # text_to_replace THEN Tried(<<operand>>, "ok")
    ELSE IF overflow_checks /\ Len(collected.text) = 0 /\ HasStringItem(operand.a)
         THEN Tried(<<operand>>, "panic")
         ELSE Tried(<<ArrayObj(replace_slots(operand.a, 0, Len(collected.text), encoding,
                                             replacement, default_str))>>, "ok")

\* try_to_replace_encoded_text, lines 345-387.
RECURSIVE try_to_replace_encoded_text(_, _, _, _, _, _)
try_to_replace_encoded_text(operands, encoding, text_to_replace, replacement, default_str, overflow_checks) ==
    IF operands = <<>> THEN Tried(<<>>, "ok")
    ELSE LET operand == Head(operands)
             first == CASE operand.t = "String" ->
                             replace_exact_string(operand, encoding, text_to_replace,
                                                  replacement, default_str)
                        [] operand.t = "Array" ->
                             replace_exact_array(operand, encoding, text_to_replace,
                                                 replacement, default_str, overflow_checks)
                        [] OTHER -> Tried(<<operand>>, "ok")
         IN  IF first.outcome # "ok" THEN Tried(operands, first.outcome)
             ELSE LET rest == try_to_replace_encoded_text(Tail(operands), encoding,
                                  text_to_replace, replacement, default_str,
                                  overflow_checks)
                  IN  Tried(first.operands \o rest.operands, rest.outcome)

\* A page that selects F1 and shows an array.
ArrayProg(items) ==
    << Operation("Tf", <<NameObj("F1"), IntegerObj(12)>>),
       Operation("TJ", <<ArrayObj(items)>>) >>

\* The pages of the documents of replace_text: a text; arrays of one
\* character a slot, two and three slots; an array with a slot of two
\* characters; one with a wide gap; an empty string in an array and alone; a
\* text before any Tf and texts that differ; a Tf without operand after a
\* text; a string that does not decode after a text; a font that does not
\* resolve; the other encoding.
ExactPages ==
    { Page(BothFonts, <<Operation("BT", <<>>)>> \o TextProg("F1", <<1, 2, 1>>)
                      \o <<Operation("ET", <<>>)>>),
      Page(BothFonts, ArrayProg(<<StringObj(<<1>>), IntegerObj(0 - 5), StringObj(<<2>>)>>)),
      Page(BothFonts, ArrayProg(<<StringObj(<<1>>), StringObj(<<1>>), IntegerObj(0 - 5),
                                  StringObj(<<2>>)>>)),
      Page(BothFonts, ArrayProg(<<StringObj(<<1, 2>>), StringObj(<<1>>)>>)),
      Page(BothFonts, ArrayProg(<<StringObj(<<1>>), IntegerObj(0 - 120), StringObj(<<2>>)>>)),
      Page(BothFonts, ArrayProg(<<StringObj(<<>>)>>) \o
                      <<Operation("Tj", <<StringObj(<<>>)>>)>>),
      Page(BothFonts, <<Operation("Tj", <<StringObj(<<1>>)>>)>> \o TextProg("F1", <<1>>)
                      \o <<Operation("Tj", <<StringObj(<<2>>)>>)>>),
      Page(BothFonts, TextProg("F1", <<1>>) \o
                      << Operation("Tf", <<>>), Operation("Tj", <<StringObj(<<1>>)>>) >>),
      Page(BothFonts, TextProg("F1", <<1>>) \o <<Operation("Tj", <<StringObj(<<4>>)>>)>>),
      Page([F1 |-> Some("EncA"), F2 |-> None], TextProg("F1", <<1>>)),
      Page(BothFonts, TextProg("F2", <<2>>)) }

\* The target texts; the replacements; default_str.
TargetTexts ==
    { <<>>, <<"a">>, <<"a", "b">>, <<"a", "a", "b">>, <<"a", "b", "a">> }

OtherTexts == { <<>>, <<"b">>, <<"b", "a", "b">>, <<"b", "z">> }

DefaultStrs == { None, Some(<<"b">>) }

\* Result<()>, and a panic.
OkUnit == <<"Ok">>
Panicked == <<"Panic">>

ExIdle ==
    /\ eDoc = <<>> /\ eStored = <<>> /\ eWrites = 0
    /\ ePageNumber = 0
    /\ eText = <<>> /\ eOtherText = <<>> /\ eDefault = None
    /\ ePage = 0 /\ eOps = <<>> /\ eIdx = 0
    /\ eEnc = None
    /\ ePc = "idle" /\ eRet = None

ExInit ==
    /\ eDoc \in SeqsUpTo(ExactPages, MaxPages) \ {<<>>}
    /\ eStored = eDoc /\ eWrites = 0
    /\ ePageNumber \in 0..(MaxPages + 1)
    /\ eText \in TargetTexts
    /\ eOtherText \in OtherTexts
    /\ eDefault \in DefaultStrs
    /\ ePage = 0 /\ eOps = <<>> /\ eIdx = 0
    /\ eEnc = None
    /\ ePc = "start" /\ eRet = None

\* Line 169: default_str.unwrap_or("").
DefaultStr == IF IsSome(eDefault) THEN Get(eDefault) ELSE <<>>

\* Lines 144-148: page_iter().nth(page) finds no page.
ExPageNotFound ==
    /\ ePc = "start"
    /\ saturating_sub_1(ePageNumber) + 1 > Len(eStored)
    /\ eRet' = Failed(<<"PageNumberNotFound", ePageNumber>>)
    /\ ePc' = "done"
    /\ UNCHANGED <<eDoc, eStored, eWrites, ePageNumber, eText, eOtherText, eDefault,
                   ePage, eOps, eIdx, eEnc>>
    /\ UNCHANGED eOthers

\* Lines 149-153: the encoding of a font of the page does not resolve.
ExFontError ==
    /\ ePc = "start"
    /\ saturating_sub_1(ePageNumber) + 1 <= Len(eStored)
    /\ LET page == eStored[saturating_sub_1(ePageNumber) + 1]
       IN  \E n \in DOMAIN page.fonts : ~IsSome(page.fonts[n])
    /\ eRet' = Failed(<<"FontEncoding">>)
    /\ ePc' = "done"
    /\ UNCHANGED <<eDoc, eStored, eWrites, ePageNumber, eText, eOtherText, eDefault,
                   ePage, eOps, eIdx, eEnc>>
    /\ UNCHANGED eOthers

\* Lines 144-156: the page, its encodings, its decoded content.
ExStart ==
    /\ ePc = "start"
    /\ saturating_sub_1(ePageNumber) + 1 <= Len(eStored)
    /\ LET page == eStored[saturating_sub_1(ePageNumber) + 1]
       IN  /\ \A n \in DOMAIN page.fonts : IsSome(page.fonts[n])
           /\ eOps' = page.prog
    /\ ePage' = saturating_sub_1(ePageNumber) + 1
    /\ ePc' = "ops"
    /\ UNCHANGED <<eDoc, eStored, eWrites, ePageNumber, eText, eOtherText, eDefault,
                   eIdx, eEnc, eRet>>
    /\ UNCHANGED eOthers

ExEncodings == EncodingsOf(eStored[ePage].fonts)

\* Lines 159-166: Tf.
ExTf ==
    /\ ePc = "ops" /\ eIdx < Len(eOps)
    /\ eOps[eIdx + 1].operator = "Tf"
    /\ LET operands == eOps[eIdx + 1].operands IN
       IF operands = <<>>
       THEN /\ eRet' = Failed(<<"Syntax">>)
            /\ ePc' = "done"
            /\ UNCHANGED <<eIdx, eEnc>>
       ELSE IF operands[1].t # "Name"
       THEN /\ eRet' = Failed(<<"ObjectType">>)
            /\ ePc' = "done"
            /\ UNCHANGED <<eIdx, eEnc>>
       ELSE /\ eEnc' = IF operands[1].n \in DOMAIN ExEncodings
                       THEN Some(ExEncodings[operands[1].n]) ELSE None
            /\ eIdx' = eIdx + 1
            /\ UNCHANGED <<eRet, ePc>>
    /\ UNCHANGED <<eDoc, eStored, eWrites, ePageNumber, eText, eOtherText, eDefault,
                   ePage, eOps>>
    /\ UNCHANGED eOthers

\* Lines 167-175: Tj or TJ, in a build whose arithmetic wraps or with no
\* underflow to meet.
ExShow ==
    /\ ePc = "ops" /\ eIdx < Len(eOps)
    /\ eOps[eIdx + 1].operator \in {"Tj", "TJ"}
    /\ IF IsSome(eEnc)
       THEN LET r == try_to_replace_encoded_text(eOps[eIdx + 1].operands, Get(eEnc),
                         eText, eOtherText, DefaultStr, FALSE)
            IN  IF r.outcome = "ok"
                THEN /\ eOps' = [eOps EXCEPT ![eIdx + 1].operands = r.operands]
                     /\ eIdx' = eIdx + 1
                     /\ UNCHANGED <<eRet, ePc>>
                ELSE /\ eRet' = Failed(<<"Decode">>)
                     /\ ePc' = "done"
                     /\ UNCHANGED <<eOps, eIdx>>
       ELSE /\ eIdx' = eIdx + 1
            /\ UNCHANGED <<eOps, eRet, ePc>>
    /\ UNCHANGED <<eDoc, eStored, eWrites, ePageNumber, eText, eOtherText, eDefault,
                   ePage, eEnc>>
    /\ UNCHANGED eOthers

\* Line 365 in a build with overflow checks: s_len - 1 with s_len = 0.
ExShowPanic ==
    /\ ePc = "ops" /\ eIdx < Len(eOps)
    /\ eOps[eIdx + 1].operator \in {"Tj", "TJ"}
    /\ IsSome(eEnc)
    /\ try_to_replace_encoded_text(eOps[eIdx + 1].operands, Get(eEnc),
                                   eText, eOtherText, DefaultStr, TRUE).outcome = "panic"
    /\ eRet' = Panicked
    /\ ePc' = "done"
    /\ UNCHANGED <<eDoc, eStored, eWrites, ePageNumber, eText, eOtherText, eDefault,
                   ePage, eOps, eIdx, eEnc>>
    /\ UNCHANGED eOthers

\* Line 176: any other operation.
ExOther ==
    /\ ePc = "ops" /\ eIdx < Len(eOps)
    /\ eOps[eIdx + 1].operator \notin {"Tf", "Tj", "TJ"}
    /\ eIdx' = eIdx + 1
    /\ UNCHANGED <<eDoc, eStored, eWrites, ePageNumber, eText, eOtherText, eDefault,
                   ePage, eOps, eEnc, ePc, eRet>>
    /\ UNCHANGED eOthers

\* Lines 178-179: the content is encoded and stored.
ExFinish ==
    /\ ePc = "ops" /\ eIdx = Len(eOps)
    /\ eStored' = [eStored EXCEPT ![ePage].prog = eOps]
    /\ eWrites' = eWrites + 1
    /\ eRet' = OkUnit
    /\ ePc' = "done"
    /\ UNCHANGED <<eDoc, ePageNumber, eText, eOtherText, eDefault,
                   ePage, eOps, eIdx, eEnc>>
    /\ UNCHANGED eOthers

ExNext ==
    \/ ExPageNotFound
    \/ ExFontError
    \/ ExStart
    \/ ExTf
    \/ ExShow
    \/ ExShowPanic
    \/ ExOther
    \/ ExFinish

(***************************************************************************)
(* 6. collect_text on its own  (src/src/parser_aux.rs 282-301)             *)
(***************************************************************************)

\* The most operands of a Tj/TJ operation.
MaxOperands == 3

\* Object::Real; the value is a whole number in the inputs.
RealObj(r) == [t |-> "Real", r |-> r]

\* The gap from which the spec has extraction put a space.
WideGap == 0 - 100

\* The operands of the inputs: strings, one that does not decode; integers
\* at, below and above the gap; a real below it; a kerned array.
CollectOperands ==
    { StringObj(<<1>>), StringObj(<<4>>),
      IntegerObj(WideGap - 1), IntegerObj(WideGap), IntegerObj(WideGap + 1),
      IntegerObj(0), RealObj(WideGap - 20),
      ArrayObj(<<StringObj(<<2>>), IntegerObj(WideGap), StringObj(<<1>>),
                 IntegerObj(WideGap - 20)>>) }

ColIdle ==
    /\ cEncoding = "none"
    /\ cOperands = <<>>
    /\ cResult = None
    /\ cPc = "idle"

ColInit ==
    /\ cEncoding \in {"EncA", "EncB"}
    /\ cOperands \in SeqsUpTo(CollectOperands, MaxOperands)
    /\ cResult = None
    /\ cPc = "call"

\* Lines 119-122: collect_text on the operands, current_text being empty,
\* returns Ok.
ColOk ==
    /\ cPc = "call"
    /\ collect_text(<<>>, cEncoding, cOperands).ok
    /\ cResult' = Some(collect_text(<<>>, cEncoding, cOperands))
    /\ cPc' = "done"
    /\ UNCHANGED <<cEncoding, cOperands>>
    /\ UNCHANGED cOthers

\* Lines 119-122: collect_text returns the error of a string.
ColErr ==
    /\ cPc = "call"
    /\ ~collect_text(<<>>, cEncoding, cOperands).ok
    /\ cResult' = Some(collect_text(<<>>, cEncoding, cOperands))
    /\ cPc' = "done"
    /\ UNCHANGED <<cEncoding, cOperands>>
    /\ UNCHANGED cOthers

ColNext ==
    \/ ColOk
    \/ ColErr

(***************************************************************************)
(* 7. insert_form_object  (src/src/parser_aux.rs 266-280)                  *)
(***************************************************************************)

\* The longest page program of an input.
MaxFormOps == 3

\* The operations of the page programs of the inputs.
FormOps ==
    { Operation("q", <<>>), Operation("Q", <<>>),
      Operation("Tj", <<StringObj(<<1>>)>>),
      Operation("Do", <<NameObj(<<"X", "1">>)>>) }

\* The object numbers the documents of the inputs have handed out so far.
MaxIds == {0, 8, 9, 10}

\* A document of the inputs: max_id; the operations of the content of the
\* page, None when the page has no content that decodes; and whether the
\* page has resources that take an XObject.
FormDocs ==
    { [max_id |-> m, content |-> c, resources |-> r] :
        m \in MaxIds,
        c \in {None} \cup {Some(ops) : ops \in SeqsUpTo(FormOps, MaxFormOps)},
        r \in BOOLEAN }

\* The decimal digits of a natural number, as format!("{}", n) writes them.
RECURSIVE Decimal(_)
Decimal(n) ==
    LET digit == <<"0", "1", "2", "3", "4", "5", "6", "7", "8", "9">>[(n % 10) + 1]
    IN  IF n < 10 THEN <<digit>> ELSE Decimal(n \div 10) \o <<digit>>

\* Line 268: format!("X{}", form_id.0).
form_name(form_id) == <<"X">> \o Decimal(form_id[1])

\* The page program with the whole of q, Q and Do appended.
wrap_operations_appended(operations, name) ==
    operations \o << Operation("q", <<>>), Operation("Q", <<>>),
                     Operation("Do", <<NameObj(name)>>) >>

\* Lines 271-275: insert(0, q), push(Q), push(Do name).
wrap_operations(operations, name) ==
    <<Operation("q", <<>>)>> \o operations
        \o <<Operation("Q", <<>>)>>
        \o <<Operation("Do", <<NameObj(name)>>)>>

FormIdle ==
    /\ fDoc = [max_id |-> 0, content |-> None, resources |-> FALSE]
    /\ fStored = [max_id |-> 0, objects |-> <<>>, content |-> None, xobjects |-> <<>>]
    /\ fFormId = None
    /\ fOps = <<>>
    /\ fPc = "idle"
    /\ fRet = "none"

FormInit ==
    /\ fDoc \in FormDocs
    /\ fStored = [max_id |-> fDoc.max_id, objects |-> <<>>,
                  content |-> fDoc.content, xobjects |-> <<>>]
    /\ fFormId = None
    /\ fOps = <<>>
    /\ fPc = "start"
    /\ fRet = "none"

\* Line 267, Document::add_object: the next object number, generation 0.
FormAddObject ==
    /\ fPc = "start"
    /\ LET id == <<fStored.max_id + 1, 0>>
       IN  /\ fFormId' = Some(id)
           /\ fStored' = [fStored EXCEPT !.max_id = id[1],
                                         !.objects = MapInsert(@, id, "form_obj")]
    /\ fPc' = "content"
    /\ UNCHANGED <<fDoc, fOps, fRet>>
    /\ UNCHANGED fOthers

\* Line 270: get_and_decode_page_content fails, and `?` returns its error.
FormContentErr ==
    /\ fPc = "content"
    /\ ~IsSome(fStored.content)
    /\ fPc' = "done"
    /\ fRet' = "Err"
    /\ UNCHANGED <<fDoc, fStored, fFormId, fOps>>
    /\ UNCHANGED fOthers

\* Lines 270-276: the content is decoded, wrapped and encoded.
FormWrap ==
    /\ fPc = "content"
    /\ IsSome(fStored.content)
    /\ fOps' = wrap_operations(Get(fStored.content), form_name(Get(fFormId)))
    /\ fPc' = "xobject"
    /\ UNCHANGED <<fDoc, fStored, fFormId, fRet>>
    /\ UNCHANGED fOthers

\* Line 277: add_xobject fails, and `?` returns its error.
FormXObjectErr ==
    /\ fPc = "xobject"
    /\ ~fDoc.resources
    /\ fPc' = "done"
    /\ fRet' = "Err"
    /\ UNCHANGED <<fDoc, fStored, fFormId, fOps>>
    /\ UNCHANGED fOthers

\* Line 277: add_xobject binds the name to the form object.
FormXObject ==
    /\ fPc = "xobject"
    /\ fDoc.resources
    /\ fStored' = [fStored EXCEPT
                     !.xobjects = MapInsert(@, form_name(Get(fFormId)), Get(fFormId))]
    /\ fPc' = "store"
    /\ UNCHANGED <<fDoc, fFormId, fOps, fRet>>
    /\ UNCHANGED fOthers

\* Line 279: change_page_content stores the program and the call returns.
FormStore ==
    /\ fPc = "store"
    /\ fStored' = [fStored EXCEPT !.content = Some(fOps)]
    /\ fPc' = "done"
    /\ fRet' = "Ok"
    /\ UNCHANGED <<fDoc, fFormId, fOps>>
    /\ UNCHANGED fOthers

FormNext ==
    \/ FormAddObject
    \/ FormContentErr
    \/ FormWrap
    \/ FormXObjectErr
    \/ FormXObject
    \/ FormStore

(***************************************************************************)
(* Specifications.                                                         *)
(***************************************************************************)
InitXref == XrefInit /\ ObjIdle /\ ExtIdle /\ DocIdle /\ RepIdle /\ ExIdle /\ ColIdle /\ FormIdle

SpecXref == InitXref /\ [][XrefNext]_vars

InitObjStm == XrefIdle /\ ObjInit /\ ExtIdle /\ DocIdle /\ RepIdle /\ ExIdle /\ ColIdle /\ FormIdle

SpecObjStm == InitObjStm /\ [][ObjNext]_vars

InitPage == XrefIdle /\ ObjIdle /\ ExtInit /\ DocIdle /\ RepIdle /\ ExIdle /\ ColIdle /\ FormIdle

SpecPage == InitPage /\ [][ExtNext]_vars

InitDoc == XrefIdle /\ ObjIdle /\ ExtIdle /\ DocInit /\ RepIdle /\ ExIdle /\ ColIdle /\ FormIdle

SpecDoc == InitDoc /\ [][DocNext]_vars

InitReplace == XrefIdle /\ ObjIdle /\ ExtIdle /\ DocIdle /\ RepInit /\ ExIdle /\ ColIdle /\ FormIdle

SpecReplace == InitReplace /\ [][RepNext]_vars

InitExact == XrefIdle /\ ObjIdle /\ ExtIdle /\ DocIdle /\ RepIdle /\ ExInit /\ ColIdle /\ FormIdle

SpecExact == InitExact /\ [][ExNext]_vars

\* Either call, on its document.
InitSubst ==
    /\ XrefIdle /\ ObjIdle /\ ExtIdle /\ DocIdle /\ ColIdle /\ FormIdle
    /\ (RepInit /\ ExIdle) \/ (RepIdle /\ ExInit)

SubstNext == RepNext \/ ExNext

SpecSubst == InitSubst /\ [][SubstNext]_vars

InitCollect ==
    XrefIdle /\ ObjIdle /\ ExtIdle /\ DocIdle /\ RepIdle /\ ExIdle /\ ColInit /\ FormIdle

SpecCollect == InitCollect /\ [][ColNext]_vars

InitForm ==
    XrefIdle /\ ObjIdle /\ ExtIdle /\ DocIdle /\ RepIdle /\ ExIdle /\ ColIdle /\ FormInit

SpecForm == InitForm /\ [][FormNext]_vars

(***************************************************************************)
(* Claims on decode_xref_stream.                                           *)
(***************************************************************************)

\* The rows as the binary layout frames them: row k (from 0) of the content
\* is its bytes k * RowWidth + 1 .. (k + 1) * RowWidth.
RowWidth == Width(1) + Width(2) + Width(3)

\* Whether the type of layout row k lies in the bytes consumed so far.
LayoutTypeKnown(k) == k * RowWidth + Width(1) <= Len(xContent)

LayoutType(k) ==
    entry_type(SubSeq(xContent, k * RowWidth + 1, k * RowWidth + Width(1)))

\* The number of rows the pairs before pair i declare.
RECURSIVE RowsBefore(_, _)
RowsBefore(index, i) ==
    IF i = 0 THEN 0 ELSE RowsBefore(index, i - 1) + index[2 * i]

\* The object numbers pair i (from 0) of a flat Index array declares.
PairRange(index, i) ==
    {index[2 * i + 1] + j : j \in 0..(index[2 * i + 2] - 1)}

\* No object number is declared by two pairs.
DisjointRanges(index) ==
    \A i, k \in 0..(Len(index) \div 2 - 1) :
        i # k => PairRange(index, i) \cap PairRange(index, k) = {}

\* xDict loses Index and W in XrefFinish; the rows were read under these.
DecodedOk == xPc = "rows" /\ xPair >= NumPairs

\* C1: when decode_xref_stream has read all rows of an Index whose pairs
\* declare disjoint ranges, object number start + j has an entry exactly
\* when row j of that pair, as the layout frames it, has type 1 or 2, and
\* no object number outside the declared ranges has an entry.
C1_EntryIffNonFreeRow ==
    (DecodedOk /\ DisjointRanges(section_indice(xDict))) =>
        LET index == section_indice(xDict) IN
        /\ \A i \in 0..(NumPairs - 1) : \A j \in 0..(index[2 * i + 2] - 1) :
              LET k == RowsBefore(index, i) + j IN
              LayoutTypeKnown(k) =>
                  ((index[2 * i + 1] + j \in DOMAIN xXref)
                      <=> (LayoutType(k) \in {1, 2}))
        /\ DOMAIN xXref \subseteq
              UNION {PairRange(index, i) : i \in 0..(NumPairs - 1)}

\* The row a step of the row loop has just read, and its fields.
RowRead == SubSeq(xContent', Len(xContent) + 1, Len(xContent'))
Field1Read == SubSeq(RowRead, 1, Width(1))
Field2Read == SubSeq(RowRead, Width(1) + 1, Width(1) + Width(2))
Field3Read == SubSeq(RowRead, Width(1) + Width(2) + 1, RowWidth)

\* The value of the last two bytes of a field: all its bytes, cast to u16.
Low16(bytes) ==
    LET n == Len(bytes) IN
    IF n = 0 THEN 0
    ELSE IF n = 1 THEN bytes[1]
    ELSE 256 * bytes[n - 1] + bytes[n]

\* C2: every normal or compressed row decodes to the entry an encoder of
\* the same layout wrote: the second field of the entry, written big-endian
\* over W[1] bytes, is the row's second field, and its third field is the
\* row's third field cast to 16 bits.
C2_RoundTrip ==
    [][(AtRow /\ xRow' = xRow + 1 /\ entry_type(Field1Read) \in {1, 2}) =>
          /\ PairStart + xRow \in DOMAIN xXref'
          /\ LET e == xXref'[PairStart + xRow] IN
             IF entry_type(Field1Read) = 1
             THEN /\ e.kind = "Normal"
                  /\ BigEndianBytes(e.offset, Width(2)) = Field2Read
                  /\ e.generation = Low16(Field3Read)
             ELSE /\ e.kind = "Compressed"
                  /\ BigEndianBytes(e.container, Width(2)) = Field2Read
                  /\ e.index = Low16(Field3Read)]_vars

\* C3: with W[0] = 0 every row is decoded as a normal row, with W[2] = 0
\* every normal row has generation 0, and with W = [0, 4, 0] a row is the
\* next 4 bytes and yields Normal{offset = their big-endian value,
\* generation = 0}.
C3_ZeroWidthDefaults ==
    [][(AtRow /\ xRow' = xRow + 1) =>
          LET num == PairStart + xRow IN
          /\ Width(1) = 0 =>
                num \in DOMAIN xXref' /\ xXref'[num].kind = "Normal"
          /\ (Width(3) = 0 /\ num \in DOMAIN xXref'
                /\ entry_type(Field1Read) = 1 /\ xXref'[num].kind = "Normal") =>
                xXref'[num].generation = 0
          /\ (Width(1) = 0 /\ Width(2) = 4 /\ Width(3) = 0) =>
                /\ Len(xContent') = Len(xContent) + 4
                /\ num \in DOMAIN xXref'
                /\ xXref'[num] =
                      NormalEntry(16777216 * RowRead[1] + 65536 * RowRead[2]
                                    + 256 * RowRead[3] + RowRead[4], 0)]_vars

\* C3's case: a stream with W = [0, 4, 0] is decoded, and a row with a
\* non-zero first byte has become a normal entry.
C3_Witness ==
    /\ DecodedOk
    /\ Width(1) = 0 /\ Width(2) = 4 /\ Width(3) = 0
    /\ \E n \in DOMAIN xXref : xXref[n] = NormalEntry(16777218, 0)

(***************************************************************************)
(* Claims on ObjectStream::new.                                            *)
(***************************************************************************)
ObjOk == oPc = "done" /\ oRet = "Ok" /\ oContent # <<>>

first_offset == Get(oStream.First)

\* C4: every ObjectId of the returned mapping has generation 0, its number
\* is the first half of a pair of the index block, and that pair's absolute
\* offset First + relative_offset lies in [First, content.len()).
C4_IdsFromIndexInBounds ==
    ObjOk =>
        \A key \in DOMAIN oObjects :
            /\ key[2] = 0
            /\ \E k \in 1..(Len(oNumbers) \div 2) :
                /\ oNumbers[2 * k - 1] = Some(key[1])
                /\ IsSome(oNumbers[2 * k])
                /\ first_offset <= first_offset + Get(oNumbers[2 * k])
                /\ first_offset + Get(oNumbers[2 * k]) < Len(oContent)

\* C4's case: a stream is decoded into a mapping that is not empty.
C4_Witness == ObjOk /\ DOMAIN oObjects # {}

\* No object number stands twice as the first half of a pair.
NoDuplicateIds(numbers) ==
    \A k, l \in 1..(Len(numbers) \div 2) :
        (k # l /\ IsSome(numbers[2 * k - 1])) =>
            numbers[2 * k - 1] # numbers[2 * l - 1]

\* The mapping the sequential build collects from chunks 1..n in order.
RECURSIVE SequentialObjects(_, _, _, _)
SequentialObjects(numbers, first, content, n) ==
    IF n = 0 THEN <<>>
    ELSE collect_seq(SequentialObjects(numbers, first, content, n - 1),
                     chunks_filter_map(numbers, first, content, n))

\* C5: for an index block without duplicate object numbers, the mapping the
\* parallel build returns, whatever the order in which its workers finish
\* the entries, is the mapping the sequential build returns.
C5_ParallelEqualsSequential ==
    (ObjOk /\ oRayon /\ NoDuplicateIds(oNumbers)) =>
        oObjects = SequentialObjects(oNumbers, first_offset, oContent,
                                     Len(oNumbers) \div 2)

\* C5's case: the parallel build has decoded two entries.
C5_Witness ==
    ObjOk /\ oRayon /\ NoDuplicateIds(oNumbers) /\ Cardinality(DOMAIN oObjects) >= 2

\* The tokens of the index block, by position, and what pair k of them (from
\* 1) stands for.
IndexTokens == split_whitespace(SubSeq(oContent, 1, first_offset))
PairValid(k) ==
    IsSome(u32_from_str(IndexTokens[2 * k - 1])) /\ IsSome(u32_from_str(IndexTokens[2 * k]))
PairId(k) == <<Get(u32_from_str(IndexTokens[2 * k - 1])), 0>>
PairOffset(k) == first_offset + Get(u32_from_str(IndexTokens[2 * k]))
PairObject(k) ==
    IF PairOffset(k) < Len(oContent)
    THEN direct_object(SubSeq(oContent, PairOffset(k) + 1, Len(oContent)))
    ELSE None

\* C6: the tokens of the index block are paired by position.  Every entry
\* of the mapping is the object of a complete pair whose two tokens are
\* numbers, decoded at that pair's own offset; every such pair whose object
\* parses is in the mapping; an unpaired last token and a pair with a token
\* that is no number contribute nothing.
C6_PairsByPosition ==
    ObjOk =>
        LET npairs == Len(IndexTokens) \div 2 IN
        /\ \A key \in DOMAIN oObjects :
              \E k \in 1..npairs :
                  /\ PairValid(k)
                  /\ key = PairId(k)
                  /\ PairObject(k) = Some(oObjects[key])
        /\ \A k \in 1..npairs :
              (PairValid(k) /\ IsSome(PairObject(k))) => PairId(k) \in DOMAIN oObjects

\* C6's case: an index block with a pair that holds a token that is no
\* number, followed by a pair that is decoded.
C6_Witness ==
    /\ ObjOk
    /\ \E k \in 1..(Len(IndexTokens) \div 2) : ~PairValid(k)
    /\ \E k \in 2..(Len(IndexTokens) \div 2) :
          PairValid(k) /\ ~PairValid(k - 1) /\ PairId(k) \in DOMAIN oObjects

(***************************************************************************)
(* Claims on text extraction.                                              *)
(***************************************************************************)

\* The chunks among the chunks and errors, in order.
OkChunks(out) == SelectSeq(out, IsOk)

EndsWithBreak(text) == text # <<>> /\ Last(text) = LF

\* The step takes an operation with this operator from the page program.
TookOp(operator) ==
    /\ tProg' # tProg
    /\ Last(tProg').operator = operator

\* The step is the end of the page program.
AtPageEnd == tPc = "ops" /\ tPc' = "done" /\ tProg' = tProg

\* A step that emits chunks emits one, the accumulated text, and is a Tf
\* that finds the accumulator non-empty or the end of the page.
EmitsOnlyOnTfOrEnd ==
    OkChunks(tState'.out) # OkChunks(tState.out) =>
        /\ TookOp("Tf") \/ AtPageEnd
        /\ tState.text # <<>>
        /\ OkChunks(tState'.out) = Append(OkChunks(tState.out), OkChunk(tState.text))

\* ET emits nothing and appends one line break unless the text ends with one.
EtOnlyBreaks ==
    TookOp("ET") =>
        /\ tState'.out = tState.out
        /\ tState'.text = IF EndsWithBreak(tState.text) THEN tState.text
                          ELSE Append(tState.text, LF)

IsTf(op) == op.operator = "Tf"

\* Operation k of the program selects a font of the page that resolves.
SelectsResolvable(prog, fonts, k) ==
    /\ prog[k].operator = "Tf"
    /\ prog[k].operands # <<>>
    /\ prog[k].operands[1].t = "Name"
    /\ prog[k].operands[1].n \in DOMAIN EncodingsOf(fonts)

\* The program selects one font, which resolves, and after that shows text
\* in one or several text objects, none of which ended before the Tf.
OneFontPage(prog, fonts) ==
    /\ Len(SelectSeq(prog, IsTf)) = 1
    /\ \E k \in 1..Len(prog) :
         /\ SelectsResolvable(prog, fonts, k)
         /\ \A i \in 1..(k - 1) : prog[i].operator # "ET"
         /\ \E i \in (k + 1)..Len(prog) : prog[i].operator \in {"Tj", "TJ"}
         /\ \E i \in (k + 1)..Len(prog) : prog[i].operator = "ET"

OneFontOneChunk ==
    tPc = "done" /\ OneFontPage(tProg, tFonts) =>
        Len(OkChunks(tState.out)) = 1

\* The program is BT Tf Tj ET, the font resolves and the string decodes.
IsBtTfTjEt(prog, fonts) ==
    /\ Len(prog) = 4
    /\ prog[1].operator = "BT"
    /\ SelectsResolvable(prog, fonts, 2)
    /\ prog[3].operator = "Tj"
    /\ Len(prog[3].operands) = 1
    /\ prog[3].operands[1].t = "String"
    /\ IsSome(decode_text(EncodingsOf(fonts)[prog[2].operands[1].n],
                          prog[3].operands[1].b))
    /\ prog[4].operator = "ET"

\* The decoded text of the Tj of such a program.
ShownText(prog, fonts) ==
    Get(decode_text(EncodingsOf(fonts)[prog[2].operands[1].n],
                    prog[3].operands[1].b))

\* The text with a line break after it unless it ends with one.
WithBreak(text) == IF EndsWithBreak(text) THEN text ELSE Append(text, LF)

BtTfTjEtChunk ==
    tPc = "done" /\ IsBtTfTjEt(tProg, tFonts) =>
        OkChunks(tState.out) = <<OkChunk(WithBreak(ShownText(tProg, tFonts)))>>

RECURSIVE JoinChunks(_)
JoinChunks(chunks) ==
    IF chunks = <<>> THEN <<>> ELSE Head(chunks)[2] \o JoinChunks(Tail(chunks))

\* The first error among the chunks and errors.
FirstErr(out) ==
    out[CHOOSE i \in 1..Len(out) :
            ~IsOk(out[i]) /\ \A j \in 1..(i - 1) : IsOk(out[j])]

\* extract_text joins the chunks, or returns the first error.
JoinsOrFirstErr ==
    dPc = "done" =>
        IF \A i \in 1..Len(dChunks) : IsOk(dChunks[i])
        THEN dText = OkChunk(JoinChunks(dChunks))
        ELSE dText = FirstErr(dChunks)

\* The document is two pages, each one text under the same encoding, and
\* both pages are requested in order.
TwoTextPages ==
    /\ Len(dDoc) = 2
    /\ \A p \in 1..2 : \E b \in TextBytes : dDoc[p] = TextPage(b)
    /\ dRequest = <<1, 2>>

PageText(page) == ShownText(page.prog, page.fonts)

\* C8 as stated, its last part: for two pages each holding one text under
\* the same encoding, extract_text is text1, line break, text2, line break.
C8_TwoPagesTextBreakTextBreak ==
    dPc = "done" /\ TwoTextPages =>
        dText = OkChunk(Append(PageText(dDoc[1]), LF) \o Append(PageText(dDoc[2]), LF))

\* C8: extract_text returns the concatenation, in order, of the chunks of
\* extract_text_chunks for the same pages when none is an error, and the
\* first error otherwise; for two pages each holding one text under the same
\* encoding the result is text1 then text2, each followed by a line break
\* unless it ends with one.
C8_ExtractTextJoinsChunks ==
    /\ JoinsOrFirstErr
    /\ dPc = "done" /\ TwoTextPages =>
         dText = OkChunk(WithBreak(PageText(dDoc[1])) \o WithBreak(PageText(dDoc[2])))

\* C8: extract_text of pages 1 and 2 with the texts "a" and "ba" is done.
C8_Witness ==
    /\ dPc = "done"
    /\ TwoTextPages
    /\ dText = OkChunk(<<"a", LF, "b", "a", LF>>)

\* What a page yields when it is extracted on its own.
PageAlone(page) == flat_map_item(extract_text_chunks_from_page(<<page>>, 1))

\* What a requested page number is to contribute.
Contribution(doc, n) ==
    IF n \in 1..Len(doc) THEN PageAlone(doc[n])
    ELSE <<ErrEntry(<<"PageNumberNotFound", n>>)>>

RECURSIVE Contributions(_, _)
Contributions(doc, request) ==
    IF request = <<>> THEN <<>>
    ELSE Contribution(doc, Head(request)) \o Contributions(doc, Tail(request))

\* C9: each requested page number is processed on its own: one that is no
\* page of the document contributes one PageNumberNotFound error at its
\* place and the pages after it are still processed; the results are in the
\* order of the request, and within a page in the order produced.
C9_PagesIndependentInOrder ==
    /\ dPc = "chunks" => dChunks = Contributions(dDoc, SubSeq(dRequest, 1, dIdx))
    /\ dPc = "done" => dChunks = Contributions(dDoc, dRequest)

\* C9: a request of a missing page number and then a page is done: the
\* error comes first, the chunk of the page after it.
C9_Witness ==
    /\ dPc = "done"
    /\ Len(dRequest) = 2
    /\ dRequest[1] \notin PageNumbers(dDoc)
    /\ dRequest[2] \in PageNumbers(dDoc)
    /\ Len(dChunks) = 2
    /\ dChunks[1] = ErrEntry(<<"PageNumberNotFound", dRequest[1]>>)
    /\ IsOk(dChunks[2])

(***************************************************************************)
(* Claims on text substitution.                                            *)
(***************************************************************************)

\* The call has returned Ok.
RepOk == rPc = "done" /\ rRet # None /\ rRet[1] = "Ok"

\* The encoding operation i of the program runs under: that of the Tf last
\* before it, None when there is none or its font is unknown to the page.
EncodingAt(prog, fonts, i) ==
    LET tfs == {k \in 1..(i - 1) : prog[k].operator = "Tf"} IN
    IF tfs = {} THEN None
    ELSE LET k == CHOOSE m \in tfs : \A n \in tfs : n <= m
             font == prog[k].operands[1].n
         IN  IF font \in DOMAIN EncodingsOf(fonts)
             THEN Some(EncodingsOf(fonts)[font]) ELSE None

\* The Tj/TJ operations of the program that run under a resolved encoding.
ShownUnderEncoding(prog, fonts) ==
    {i \in 1..Len(prog) :
        prog[i].operator \in {"Tj", "TJ"} /\ IsSome(EncodingAt(prog, fonts, i))}

IsStringObj(obj) == obj.t = "String"

\* The string operands: plain strings, and each string item of an array.
RECURSIVE StringOperands(_)
StringOperands(operands) ==
    IF operands = <<>> THEN <<>>
    ELSE (CASE Head(operands).t = "String" -> <<Head(operands)>>
            [] Head(operands).t = "Array" -> SelectSeq(Head(operands).a, IsStringObj)
            [] OTHER -> <<>>) \o StringOperands(Tail(operands))

\* What they decode to.
DecodedOperands(encoding, operands) ==
    LET strings == StringOperands(operands)
    IN  [k \in 1..Len(strings) |-> Get(decode_text(encoding, strings[k].b))]

RECURSIVE Occurrences(_, _)
Occurrences(texts, pat) ==
    IF texts = <<>> THEN 0
    ELSE str_matches_count(Head(texts), pat) + Occurrences(Tail(texts), pat)

\* The occurrences in the operations up to i that are shown under an encoding.
RECURSIVE OccurrencesUpTo(_, _, _, _)
OccurrencesUpTo(prog, fonts, pat, i) ==
    IF i = 0 THEN 0
    ELSE OccurrencesUpTo(prog, fonts, pat, i - 1) +
         (IF i \in ShownUnderEncoding(prog, fonts)
          THEN Occurrences(DecodedOperands(Get(EncodingAt(prog, fonts, i)),
                                           prog[i].operands), pat)
          ELSE 0)

\* Every character of the text has a byte in the encodings.
Representable(text) ==
    \A k \in 1..Len(text) : IsSome(EncodeChar("EncA", text[k]))

\* C10, for a replacement the encoding represents: replace_partial_text
\* returns the number of non-overlapping occurrences of the search string
\* over all string operands (plain strings and each string item of an array)
\* of the Tj/TJ operations under a resolved encoding, and afterwards each
\* such operand decodes to its original text with every occurrence replaced.
C10_PartialCountsAndReplaces ==
    RepOk /\ Representable(rReplacement) =>
        LET old == rDoc[rPage].prog
            new == rStored[rPage].prog
            fonts == rDoc[rPage].fonts
        IN  /\ rRet = OkCount(OccurrencesUpTo(old, fonts, rSearch, Len(old)))
            /\ \A i \in ShownUnderEncoding(old, fonts) :
                 LET encoding == Get(EncodingAt(old, fonts, i))
                     before == DecodedOperands(encoding, old[i].operands)
                 IN  DecodedOperands(encoding, new[i].operands) =
                        [k \in 1..Len(before) |->
                            str_replace(before[k], rSearch, rReplacement)]

(***************************************************************************)
(* Claims on exact substitution.                                           *)
(***************************************************************************)

\* replace_text has returned Ok.
ExOk == ePc = "done" /\ eRet = OkUnit

\* The encoding of each character of the text in turn, that of the default
\* string for a character the encoding does not represent.
RECURSIVE CharByChar(_, _, _)
CharByChar(encoding, text, default_str) ==
    IF text = <<>> THEN <<>>
    ELSE (IF IsSome(EncodeChar(encoding, Head(text)))
          THEN <<Get(EncodeChar(encoding, Head(text)))>>
          ELSE encode_text(encoding, default_str))
         \o CharByChar(encoding, Tail(text), default_str)

\* Operand j of operation i is a plain string that decodes to the target.
PlainMatch(prog, fonts, i, j, target) ==
    /\ i \in ShownUnderEncoding(prog, fonts)
    /\ j \in 1..Len(prog[i].operands)
    /\ prog[i].operands[j].t = "String"
    /\ decode_text(Get(EncodingAt(prog, fonts, i)), prog[i].operands[j].b) = Some(target)

\* What the page, as stored now, extracts to.
ReExtracted == flat_map_item(extract_text_chunks_from_page(<<eStored[ePage]>>, 1))

\* C11: after replace_text, every plain string operand of a Tj/TJ operation
\* under a resolved encoding whose decoded text equals the target is the
\* concatenation, character by character of the replacement, of the encoding
\* of the character, or of the default string when the encoding does not
\* represent it; the page BT Tf Tj ET whose text is the target then extracts
\* the replacement, when the encoding represents it.
C11_ExactPlainString ==
    ExOk =>
        LET old == eDoc[ePage].prog
            new == eStored[ePage].prog
            fonts == eDoc[ePage].fonts
        IN  /\ \A i \in 1..Len(old) : \A j \in 1..Len(old[i].operands) :
                 PlainMatch(old, fonts, i, j, eText) =>
                    new[i].operands[j] =
                        StringObj(CharByChar(Get(EncodingAt(old, fonts, i)),
                                             eOtherText, DefaultStr))
            /\ (IsBtTfTjEt(old, fonts) /\ ShownText(old, fonts) = eText
                    /\ Representable(eOtherText)) =>
                 ReExtracted = <<OkChunk(WithBreak(eOtherText))>>

\* Operand j of operation i is an array whose collected text is the target.
ArrayMatch(prog, fonts, i, j, target) ==
    /\ i \in ShownUnderEncoding(prog, fonts)
    /\ j \in 1..Len(prog[i].operands)
    /\ prog[i].operands[j].t = "Array"
    /\ LET collected == collect_text(<<>>, Get(EncodingAt(prog, fonts, i)),
                                     prog[i].operands[j].a)
       IN  collected.ok /\ collected.text = target

\* The positions of the string slots of an array, in order.
RECURSIVE SlotPositionsFrom(_, _)
SlotPositionsFrom(arr, k) ==
    IF k > Len(arr) THEN <<>>
    ELSE (IF arr[k].t = "String" THEN <<k>> ELSE <<>>) \o SlotPositionsFrom(arr, k + 1)

SlotPositions(arr) == SlotPositionsFrom(arr, 1)

\* C12: after replace_text, in an array operand whose collected text equals
\* the target, and for a replacement of at least as many characters as the
\* array has string slots, each string slot before the last holds the
\* encoding of one replacement character, in order, and the last string slot
\* that of the whole rest of the replacement from its own index on.
C12_ArraySlotsAndSuffix ==
    ExOk =>
        LET old == eDoc[ePage].prog
            new == eStored[ePage].prog
            fonts == eDoc[ePage].fonts
        IN  \A i \in 1..Len(old) : \A j \in 1..Len(old[i].operands) :
              ArrayMatch(old, fonts, i, j, eText) =>
                LET encoding == Get(EncodingAt(old, fonts, i))
                    slots == SlotPositions(old[i].operands[j].a)
                    n == Len(slots)
                    arr == new[i].operands[j].a
                IN  Len(eOtherText) >= n =>
                      /\ \A k \in 1..(n - 1) :
                           arr[slots[k]] =
                             StringObj(CharByChar(encoding, <<eOtherText[k]>>, DefaultStr))
                      /\ n > 0 =>
                           arr[slots[n]] =
                             StringObj(CharByChar(encoding,
                                            SubSeq(eOtherText, n, Len(eOtherText)),
                                            DefaultStr))

\* C13: after replace_text, in an array operand whose collected text equals
\* the target and whose replacement has fewer characters than the array has
\* string slots, every string slot whose index, from 0, is at or beyond the
\* number of characters of the replacement is the Null object.
C13_ShortReplacementNulls ==
    ExOk =>
        LET old == eDoc[ePage].prog
            new == eStored[ePage].prog
            fonts == eDoc[ePage].fonts
        IN  \A i \in 1..Len(old) : \A j \in 1..Len(old[i].operands) :
              ArrayMatch(old, fonts, i, j, eText) =>
                LET slots == SlotPositions(old[i].operands[j].a)
                    arr == new[i].operands[j].a
                IN  Len(eOtherText) < Len(slots) =>
                      \A k \in 1..Len(slots) :
                         k - 1 >= Len(eOtherText) => arr[slots[k]] = NullObj

(***************************************************************************)
(* Claims on both substitutions.                                           *)
(***************************************************************************)

\* The page a page number addresses for the substitutions, 0 when none.
Addressed(doc, page_number) ==
    IF saturating_sub_1(page_number) + 1 <= Len(doc)
    THEN saturating_sub_1(page_number) + 1 ELSE 0

HasUnresolvedFont(page) == \E n \in DOMAIN page.fonts : ~IsSome(page.fonts[n])

\* The program has a Tf with no operand.
HasBareTf(prog) ==
    \E i \in 1..Len(prog) : prog[i].operator = "Tf" /\ prog[i].operands = <<>>

\* The strings of the program all decode, under either encoding.
AllDecodes(prog) ==
    \A i \in 1..Len(prog) :
        LET strings == StringOperands(prog[i].operands)
        IN  \A k \in 1..Len(strings) : IsSome(decode_text("EncA", strings[k].b))

\* C14: replace_text and replace_partial_text complete with Ok on a page
\* one of whose fonts has an encoding that does not resolve, the program of
\* the page being in order otherwise.
C14_UnresolvedFontTolerated ==
    /\ (/\ rPc = "done"
        /\ Addressed(rDoc, rPageNumber) # 0
        /\ HasUnresolvedFont(rDoc[Addressed(rDoc, rPageNumber)])
        /\ ~HasBareTf(rDoc[Addressed(rDoc, rPageNumber)].prog)
        /\ AllDecodes(rDoc[Addressed(rDoc, rPageNumber)].prog))
         => rRet[1] = "Ok"
    /\ (/\ ePc = "done"
        /\ Addressed(eDoc, ePageNumber) # 0
        /\ HasUnresolvedFont(eDoc[Addressed(eDoc, ePageNumber)])
        /\ ~HasBareTf(eDoc[Addressed(eDoc, ePageNumber)].prog)
        /\ AllDecodes(eDoc[Addressed(eDoc, ePageNumber)].prog))
         => eRet[1] = "Ok"

\* C15: when the program of the page has a Tf with no operand, replace_text
\* and replace_partial_text return an error, and change_page_content is
\* never called: the stored content stays as it was, whatever was replaced
\* in the operations in memory before that Tf.
C15_BareTfFailsNothingStored ==
    /\ (Addressed(rDoc, rPageNumber) # 0
          /\ HasBareTf(rDoc[Addressed(rDoc, rPageNumber)].prog)) =>
         /\ rWrites = 0 /\ rStored = rDoc
         /\ rPc = "done" => rRet[1] = "Err"
    /\ (Addressed(eDoc, ePageNumber) # 0
          /\ HasBareTf(eDoc[Addressed(eDoc, ePageNumber)].prog)) =>
         /\ eWrites = 0 /\ eStored = eDoc
         /\ ePc = "done" => eRet[1] = "Err"

\* C15: replace_partial_text has met the Tf with no operand after it had
\* replaced text in an operation before it; nothing was stored.
C15_Witness ==
    /\ rPc = "done"
    /\ rRet = Failed(<<"Syntax">>)
    /\ rOps # rDoc[rPage].prog
    /\ rWrites = 0
    /\ rStored = rDoc

\* C16: replace_partial_text calls change_page_content only when it returns
\* a count greater than zero; when nothing occurs it returns Ok(0), and with
\* Ok(0) the stored content of the page is as it was.
C16_StoresOnlyWhenCounted ==
    /\ [][rWrites' # rWrites =>
            /\ rWrites' = rWrites + 1
            /\ rRet' # None /\ rRet'[1] = "Ok" /\ rRet'[2] > 0]_vars
    /\ [](RepOk =>
            /\ OccurrencesUpTo(rDoc[rPage].prog, rDoc[rPage].fonts, rSearch,
                               Len(rDoc[rPage].prog)) = 0 => rRet = OkCount(0)
            /\ rRet = OkCount(0) => rWrites = 0 /\ rStored = rDoc)

\* C16: replace_partial_text has returned Ok(0) on a page that shows text
\* under a resolved encoding, and stored nothing.
C16_Witness ==
    /\ RepOk
    /\ rRet = OkCount(0)
    /\ ShownUnderEncoding(rDoc[rPage].prog, rDoc[rPage].fonts) # {}
    /\ rWrites = 0
    /\ rStored = rDoc

(***************************************************************************)
(* Claims on collect_text.                                                 *)
(***************************************************************************)

\* How many spaces a text has.
RECURSIVE Spaces(_)
Spaces(text) ==
    IF text = <<>> THEN 0
    ELSE (IF Head(text) = " " THEN 1 ELSE 0) + Spaces(Tail(text))

\* How many of the operands, those inside arrays included, are in the set.
RECURSIVE CountIn(_, _)
CountIn(operands, S) ==
    IF operands = <<>> THEN 0
    ELSE (IF Head(operands) \in S THEN 1 ELSE 0)
         + (IF Head(operands).t = "Array" THEN CountIn(Head(operands).a, S) ELSE 0)
         + CountIn(Tail(operands), S)

\* The objects that may be operands, arrays inside arrays left aside.
Operands == CollectOperands \cup {IntegerObj(WideGap - 20), StringObj(<<2>>)}

Arrays == {obj \in Operands : obj.t = "Array"}

\* C17 as stated: collect_text appends one space for each numeric operand
\* of value -100 or less, -100 included, and none for one above -100 (the
\* space after each array apart).
C17_SpaceAtOrBelowGap ==
    (cPc = "done" /\ Get(cResult).ok) =>
        Spaces(Get(cResult).text) =
            CountIn(cOperands, {obj \in Operands :
                                   obj.t = "Integer" /\ obj.i <= WideGap})
            + CountIn(cOperands, {obj \in Operands :
                                   obj.t = "Real" /\ obj.r <= WideGap})
            + CountIn(cOperands, Arrays)

\* C17: collect_text appends one space for each integer operand of value
\* less than -100, and none for an integer operand of -100 or more, nor for
\* a real operand (the space after each array apart).
C17_SpaceBelowGap ==
    (cPc = "done" /\ Get(cResult).ok) =>
        Spaces(Get(cResult).text) =
            CountIn(cOperands, {obj \in Operands :
                                   obj.t = "Integer" /\ obj.i < WideGap})
            + CountIn(cOperands, Arrays)

\* C17: collect_text is done with operands among which are the integers
\* -101 and -100; the text has the one space of -101.
C17_Witness ==
    /\ cPc = "done"
    /\ Get(cResult).ok
    /\ \E k \in 1..Len(cOperands) : cOperands[k] = IntegerObj(WideGap)
    /\ \E k \in 1..Len(cOperands) : cOperands[k] = IntegerObj(WideGap - 1)
    /\ \A k \in 1..Len(cOperands) : cOperands[k].t = "Integer"
    /\ Spaces(Get(cResult).text) = 1

(***************************************************************************)
(* Further claims on decode_xref_stream.                                   *)
(***************************************************************************)

\* C18: after decode_xref_stream has returned Ok, the Xref holds no entry
\* for an object number at or above the declared Size.  (The Xref being a
\* map, it holds one entry per object number at most.)
C18_NoEntryAtOrAboveSize ==
    xRet = "Ok" => \A n \in DOMAIN xXref : n < Get(xDict.Size)

\* The rows all pairs of the Index declare.
DeclaredRows == RowsBefore(section_indice(xDict), NumPairs)

\* Size or W is missing or no integer (array), or W is short or has a
\* negative width.
BadDict ==
    \/ ~IsSome(xDict.Size)
    \/ ~IsSome(xDict.W)
    \/ WidthsInvalid(field_widths(xDict))

\* C19: decode_xref_stream returns an error when Size is missing or not an
\* integer, when W is missing, has fewer than 3 elements or a negative
\* width, and when the content ends before the rows the Index declares are
\* all read: it returns Ok only for a content that holds all of them.
C19_ErrorsNoPartialXref ==
    /\ [][(xPc = "start" /\ BadDict) =>
            (xPc' = "done" /\ xRet' = "InvalidXref" /\ xXref' = <<>>)]_vars
    /\ [][(xRet # "Ok" /\ xRet' = "Ok") =>
            Len(xContent) >= DeclaredRows * RowWidth]_vars

(***************************************************************************)
(* Further claims on ObjectStream::new.                                    *)
(***************************************************************************)

\* The failures of the container itself, for a content that is not empty:
\* First is missing, no integer or no offset (negative), First lies beyond
\* the content, the index block is no UTF-8, or N is missing or no integer.
StructuralFailure ==
    \/ ~IsSome(oStream.First)
    \/ Get(oStream.First) < 0
    \/ Get(oStream.First) > Len(oContent)
    \/ ~IsUtf8(SubSeq(oContent, 1, Get(oStream.First)))
    \/ ~IsSome(oStream.N)

\* N differs from the number of pairs the index block announces.
WrongN == Len(oNumbers) # 2 * Get(oStream.N)

\* Pair k of the index block is a malformed entry: two numbers, with an
\* offset out of bounds or an object that does not parse.
SkippedEntry(k) == PairValid(k) /\ ~IsSome(PairObject(k))

\* C20: the call fails exactly on a failure of the container itself.  A
\* failed decompression leaves the raw content in use; an empty content
\* gives Ok and the empty mapping whatever First and N are; for any other
\* content the call fails if and only if First, the index block or N is
\* unusable; and the mapping of a successful call is the one collected from
\* the pairs of the index block alone, which N does not enter and from which
\* an entry out of bounds or unparseable is left out.
C20_FailsOnlyStructurally ==
    oPc = "done" =>
        /\ ~IsSome(oStream.plain) => oContent = oStream.raw
        /\ oContent = <<>> => (oRet = "Ok" /\ oObjects = <<>>)
        /\ oContent # <<>> => (oRet # "Ok" <=> StructuralFailure)
        /\ oRet # "Ok" => oObjects = <<>>
        /\ (ObjOk /\ (~oRayon \/ NoDuplicateIds(oNumbers))) =>
              /\ oObjects = SequentialObjects(oNumbers, first_offset, oContent,
                                              Len(oNumbers) \div 2)
              /\ \A k \in 1..(Len(IndexTokens) \div 2) :
                    /\ SkippedEntry(k) =>
                          \A l \in 1..(Len(IndexTokens) \div 2) :
                              (PairValid(l) /\ IsSome(PairObject(l))) =>
                                  PairId(l) \in DOMAIN oObjects
                    /\ (PairValid(k) /\ IsSome(PairObject(k))
                          /\ \A l \in 1..(Len(IndexTokens) \div 2) :
                                (l # k /\ PairValid(l)) => PairId(l) # PairId(k)) =>
                          oObjects[PairId(k)] = Get(PairObject(k))

\* C20's case: the decompression has failed, N does not match the index
\* block, one entry points at bytes that are no object, and the other entry
\* is returned all the same.
C20_Witness ==
    /\ ObjOk
    /\ ~IsSome(oStream.plain)
    /\ WrongN
    /\ \E k \in 1..(Len(IndexTokens) \div 2) :
          PairValid(k) /\ PairOffset(k) < Len(oContent) /\ ~IsSome(PairObject(k))
    /\ DOMAIN oObjects # {}

\* The same with an entry that points out of bounds.
C20_OutOfBounds ==
    /\ ObjOk
    /\ WrongN
    /\ \E k \in 1..(Len(IndexTokens) \div 2) :
          PairValid(k) /\ PairOffset(k) >= Len(oContent)
    /\ DOMAIN oObjects # {}

\* C20's other case: an empty content with neither First nor N.
C20_EmptyContent ==
    oPc = "done" /\ oContent = <<>> /\ ~IsSome(oStream.First) /\ ~IsSome(oStream.N)

(***************************************************************************)
(* Claims on insert_form_object.                                           *)
(***************************************************************************)
FormOk == fPc = "done" /\ fRet = "Ok"

\* The program the call found, and the one it has stored.
OldOps == Get(fDoc.content)
NewOps == Get(fStored.content)

\* The object number of the new form object.
NewNumber == fDoc.max_id + 1

\* C21: after insert_form_object the page program is q, then every
\* operation of the old program in its order and unchanged, then Q, then
\* Do /X<number of the new form object>; and the page's XObject resources
\* bind the name X<number> to the new object.
C21_WrapsOldProgram ==
    FormOk =>
        /\ Len(NewOps) = Len(OldOps) + 3
        /\ NewOps[1] = Operation("q", <<>>)
        /\ \A i \in 1..Len(OldOps) : NewOps[i + 1] = OldOps[i]
        /\ NewOps[Len(NewOps) - 1] = Operation("Q", <<>>)
        /\ NewOps[Len(NewOps)] =
              Operation("Do", <<NameObj(<<"X">> \o Decimal(NewNumber))>>)
        /\ <<NewNumber, 0>> \in DOMAIN fStored.objects
        /\ (<<"X">> \o Decimal(NewNumber)) \in DOMAIN fStored.xobjects
        /\ fStored.xobjects[<<"X">> \o Decimal(NewNumber)] = <<NewNumber, 0>>

\* C21's case: a form object with a number of two digits is put on a page
\* of three operations that do not start with q.
C21_Witness ==
    /\ FormOk
    /\ Len(OldOps) = MaxFormOps
    /\ OldOps[1] # Operation("q", <<>>)
    /\ NewNumber >= 10

(***************************************************************************)
(* The reader of decode_xref_stream.                                       *)
(***************************************************************************)

\* C22: every row the loop takes, whatever its type value, advances the
\* reader by exactly W[0] + W[1] + W[2] bytes and does not end the decode.
C22_RowAdvancesByRowWidth ==
    [][(xPc = "rows" /\ xRow' = xRow + 1) =>
          /\ Len(xContent') = Len(xContent) + RowWidth
          /\ xPc' = "rows"
          /\ xRet' = xRet]_vars

(***************************************************************************)
(* Text extraction and the encoding boundaries.                            *)
(***************************************************************************)

\* The encoding operation k of the program selects (None when the font has
\* none, or the operand is no name); position 0 stands for the start of the
\* page, where no encoding is active.
SelectedAt(prog, fonts, k) ==
    IF k > 0 /\ SelectsResolvable(prog, fonts, k)
    THEN Some(EncodingsOf(fonts)[prog[k].operands[1].n])
    ELSE None

\* The text shown by operations that hold no Tf, decoded under one encoding
\* (or under none): what Tj and TJ decode, and the line breaks of ET.
RECURSIVE TextUnder(_, _, _)
TextUnder(text, enc, ops) ==
    IF ops = <<>> THEN text
    ELSE LET op == Head(ops)
             next == CASE op.operator \in {"Tj", "TJ"} ->
                            IF IsSome(enc)
                            THEN collect_text(text, Get(enc), op.operands).text
                            ELSE text
                       [] op.operator = "ET" ->
                            IF EndsWithBreak(text) THEN text ELSE Append(text, LF)
                       [] OTHER -> text
         IN  TextUnder(next, enc, Tail(ops))

\* The positions that start a run of the program: 0 and those of the Tfs.
RunStarts(prog) == {0} \cup {k \in 1..Len(prog) : IsTf(prog[k])}

\* The end of the run that starts at k: before the next Tf, or the end.
RunEnd(prog, k) ==
    IF \E j \in RunStarts(prog) : j > k
    THEN (CHOOSE j \in RunStarts(prog) : j > k /\ \A i \in RunStarts(prog) : i > k => j <= i) - 1
    ELSE Len(prog)

\* The text of the run that starts at k, decoded under the one encoding
\* selected at k.
RunText(prog, fonts, k) ==
    TextUnder(<<>>, SelectedAt(prog, fonts, k), SubSeq(prog, k + 1, RunEnd(prog, k)))

\* The chunks of the runs from position k on, in program order, a run
\* without text giving none.
RECURSIVE RunChunks(_, _, _)
RunChunks(prog, fonts, k) ==
    LET text == RunText(prog, fonts, k)
        here == IF text # <<>> THEN <<OkChunk(text)>> ELSE <<>>
    IN  IF RunEnd(prog, k) >= Len(prog) THEN here
        ELSE here \o RunChunks(prog, fonts, RunEnd(prog, k) + 1)

\* A Tf the loop gets past emits the accumulated text, when there is some,
\* as the last chunk, and leaves the accumulator empty.
TfEmitsAndResets ==
    (TookOp("Tf") /\ ~tState'.fatal) =>
        /\ tState'.text = <<>>
        /\ OkChunks(tState'.out) =
              IF tState.text # <<>>
              THEN Append(OkChunks(tState.out), OkChunk(tState.text))
              ELSE OkChunks(tState.out)

\* A Tj or TJ while no encoding is active changes neither the accumulator
\* nor the output.
ShowWithoutEncodingDropped ==
    ((TookOp("Tj") \/ TookOp("TJ")) /\ ~IsSome(tState.enc)) =>
        (tState'.text = tState.text /\ tState'.out = tState.out)

\* What is emitted stays, in its place.
OutputOnlyGrows ==
    /\ Len(tState'.out) >= Len(tState.out)
    /\ SubSeq(tState'.out, 1, Len(tState.out)) = tState.out

\* C23: text is never merged across an encoding boundary.  Every Tf the
\* loop gets past emits the accumulated text (if non-empty) and resets the
\* accumulator; a Tj or TJ under no encoding changes nothing; the output
\* only grows; and the chunks of a page are, in program order, the texts of
\* its runs between Tfs, each decoded under the one encoding its Tf selected.
C23_NoMergeAcrossEncodings ==
    /\ [][TfEmitsAndResets /\ ShowWithoutEncodingDropped /\ OutputOnlyGrows]_vars
    /\ []((tPc = "done" /\ ~tState.fatal) =>
              OkChunks(tState.out) = RunChunks(tProg, tFonts, 0))

\* C23's case: the same bytes shown under EncA and, after a Tf, under EncB
\* come out as two chunks, each decoded under its own encoding.
C23_Witness ==
    /\ tPc = "done" /\ ~tState.fatal
    /\ Len(tProg) = 4
    /\ SelectedAt(tProg, tFonts, 1) = Some("EncA")
    /\ tProg[2] = Operation("Tj", <<StringObj(<<1>>)>>)
    /\ SelectedAt(tProg, tFonts, 3) = Some("EncB")
    /\ tProg[4] = tProg[2]
    /\ OkChunks(tState.out) = <<OkChunk(<<"a">>), OkChunk(<<"b">>)>>

(***************************************************************************)
(* What replace_text leaves alone.                                         *)
(***************************************************************************)

\* C24: replace_text changes nothing but matched text.  The stored program
\* has the operations of the old one, in number, order and operator names;
\* an operation other than Tj/TJ is as it was; an operand of a Tj/TJ that is
\* neither a string nor an array whose decoded text is the target is as it
\* was; a matched array keeps its length and each of its non-string items in
\* its place; and the other pages are as they were.
C24_OnlyMatchedTextChanges ==
    ExOk =>
        LET old == eDoc[ePage].prog
            new == eStored[ePage].prog
            fonts == eDoc[ePage].fonts
        IN  /\ Len(new) = Len(old)
            /\ eStored[ePage].fonts = fonts
            /\ \A p \in 1..Len(eDoc) : p # ePage => eStored[p] = eDoc[p]
            /\ \A i \in 1..Len(old) :
                 /\ new[i].operator = old[i].operator
                 /\ Len(new[i].operands) = Len(old[i].operands)
                 /\ old[i].operator \notin {"Tj", "TJ"} => new[i] = old[i]
                 /\ \A j \in 1..Len(old[i].operands) :
                      /\ (~PlainMatch(old, fonts, i, j, eText)
                            /\ ~ArrayMatch(old, fonts, i, j, eText)) =>
                            new[i].operands[j] = old[i].operands[j]
                      /\ ArrayMatch(old, fonts, i, j, eText) =>
                            /\ new[i].operands[j].t = "Array"
                            /\ Len(new[i].operands[j].a) = Len(old[i].operands[j].a)
                            /\ \A k \in 1..Len(old[i].operands[j].a) :
                                  old[i].operands[j].a[k].t # "String" =>
                                     new[i].operands[j].a[k] = old[i].operands[j].a[k]

\* C24's case: a matched array with a kerning adjustment has been changed.
C24_Witness ==
    /\ ExOk
    /\ eStored[ePage].prog # eDoc[ePage].prog
    /\ \E i \in 1..Len(eDoc[ePage].prog) :
          /\ ArrayMatch(eDoc[ePage].prog, eDoc[ePage].fonts, i, 1, eText)
          /\ \E k \in 1..Len(eDoc[ePage].prog[i].operands[1].a) :
                eDoc[ePage].prog[i].operands[1].a[k].t = "Integer"
          /\ eStored[ePage].prog[i] # eDoc[ePage].prog[i]

\* C24's other case: one string is replaced next to strings that differ
\* from the target, under an encoding and under none.
C24_UnmatchedKept ==
    /\ ExOk
    /\ Len(eDoc[ePage].prog) = 4
    /\ PlainMatch(eDoc[ePage].prog, eDoc[ePage].fonts, 3, 1, eText)
    /\ eStored[ePage].prog[3] # eDoc[ePage].prog[3]
    /\ eDoc[ePage].prog[1].operator = "Tj"
    /\ eDoc[ePage].prog[4].operator = "Tj"

(***************************************************************************)
(* The page a page number addresses.                                       *)
(***************************************************************************)

\* extract_text_chunks reports the page number as not found.
ExtractNotFound(doc, page_number) ==
    LET r == extract_text_chunks_from_page(doc, page_number)
    IN  ~r.ok /\ r.err = <<"PageNumberNotFound", page_number>>

\* C25: for a page number that extract_text_chunks reports as not found,
\* page number 0 among them, replace_partial_text and replace_text return
\* PageNumberNotFound and leave the document as it was.
C25_SamePageAsExtraction ==
    /\ (rPc = "done" /\ ExtractNotFound(rDoc, rPageNumber)) =>
          /\ rRet = Failed(<<"PageNumberNotFound", rPageNumber>>)
          /\ rStored = rDoc /\ rWrites = 0
    /\ (ePc = "done" /\ ExtractNotFound(eDoc, ePageNumber)) =>
          /\ eRet = Failed(<<"PageNumberNotFound", ePageNumber>>)
          /\ eStored = eDoc /\ eWrites = 0

(***************************************************************************)
(* The slot arithmetic of replace_text.                                    *)
(***************************************************************************)

\* C26: for every target text and every array operand, replace_text ends
\* with Ok or with an error it returns, never in a panic of the subtraction
\* s_len - 1.
C26_NoUnderflowNoPanic ==
    ePc = "done" => eRet # Panicked

====
